---------------------------- MODULE Spec2Model ----------------------------
(***************************************************************************)
(* Model of the raster-to-tile rendering engine of CLISApp                 *)
(* (data_pipeline/processing/common/generate_tiles.py).                    *)
(*                                                                         *)
(* Numbers.  Raster samples and thresholds are floating point in the       *)
(* program.  Here they are fixed-point integers counted in thousandths     *)
(* (12.0 is 12000, 0.5 is 500, 0.01 is 10), one decimal more than the      *)
(* program keeps when it rounds thresholds.  NaN and +infinity are two     *)
(* reserved integers outside the range of every sample.  Comparisons of    *)
(* samples with thresholds are exact.  The colour interpolation is         *)
(* computed as numpy computes it, in IEEE-754 binary32 with round to       *)
(* nearest even, and truncated to a byte.                                  *)
(***************************************************************************)
EXTENDS Integers, Sequences, FiniteSets, TLC

\* ------------------------------------------------------------------------
\* Numbers
\* ------------------------------------------------------------------------
Scale == 1000
NaN == -1000000000
PosInf == 1000000000

IsNaN(v) == v = NaN
IsFinite(v) == v # NaN /\ v # PosInf

Min2(a, b) == IF a <= b THEN a ELSE b
Max2(a, b) == IF a >= b THEN a ELSE b

\* ------------------------------------------------------------------------
\* Colour tables
\* ------------------------------------------------------------------------
DEFAULT_TILE_ALPHA == 200

\* hex_to_rgba, with the hex digits already read as three bytes
hex_to_rgba(r, g, b) == <<r, g, b, DEFAULT_TILE_ALPHA>>

Transparent == <<0, 0, 0, 0>>

LayerNames == {"pm25", "precipitation", "uv", "humidity", "temperature"}

\* DEFAULT_LAYER_STYLES[layer]["color_breaks"], in thousandths
StyleBreaks(layer) ==
    CASE layer = "pm25"          -> <<0, 12000, 35000, 55000, 150000>>
      [] layer = "precipitation" -> <<0, 500, 2000, 10000, 50000>>
      [] layer = "uv"            -> <<0, 3000, 6000, 8000, 11000>>
      [] layer = "humidity"      -> <<0, 30000, 50000, 70000, 90000>>
      [] layer = "temperature"   -> <<0, 10000, 20000, 30000, 40000>>

\* DEFAULT_LAYER_STYLES[layer]["colors"]
StyleColors(layer) ==
    CASE layer = "pm25" ->
           << hex_to_rgba(0, 255, 0),      \* #00ff00
              hex_to_rgba(135, 255, 0),    \* #87ff00
              hex_to_rgba(255, 255, 0),    \* #ffff00
              hex_to_rgba(255, 102, 0),    \* #ff6600
              hex_to_rgba(255, 0, 0) >>    \* #ff0000
      [] layer = "precipitation" ->
           << hex_to_rgba(255, 255, 255),  \* #ffffff
              hex_to_rgba(135, 206, 235),  \* #87ceeb
              hex_to_rgba(65, 105, 225),   \* #4169e1
              hex_to_rgba(0, 0, 255),      \* #0000ff
              hex_to_rgba(0, 0, 139) >>    \* #00008b
      [] layer = "uv" ->
           << hex_to_rgba(40, 149, 0),     \* #289500
              hex_to_rgba(247, 228, 0),    \* #f7e400
              hex_to_rgba(248, 89, 0),     \* #f85900
              hex_to_rgba(216, 0, 29),     \* #d8001d
              hex_to_rgba(107, 73, 200) >> \* #6b49c8
      [] layer = "humidity" ->
           << hex_to_rgba(139, 69, 19),    \* #8B4513
              hex_to_rgba(218, 165, 32),   \* #DAA520
              hex_to_rgba(255, 215, 0),    \* #FFD700
              hex_to_rgba(135, 206, 235),  \* #87CEEB
              hex_to_rgba(65, 105, 225) >> \* #4169E1
      [] layer = "temperature" ->
           << hex_to_rgba(0, 0, 255),      \* #0000ff
              hex_to_rgba(135, 206, 235),  \* #87ceeb
              hex_to_rgba(255, 255, 0),    \* #ffff00
              hex_to_rgba(255, 102, 0),    \* #ff6600
              hex_to_rgba(255, 0, 0) >>    \* #ff0000

\* layer_style.get("color_breaks", [...]) of __init__
FallbackBreaks == <<0, 12000, 35000, 55000, 150000, 250000, 500000>>

\* layer_style.get("colors", [...]) of __init__
FallbackColors ==
    << hex_to_rgba(0, 255, 0),      \* #00ff00
       hex_to_rgba(255, 255, 0),    \* #ffff00
       hex_to_rgba(255, 102, 0),    \* #ff6600
       hex_to_rgba(255, 0, 0),      \* #ff0000
       hex_to_rgba(128, 0, 128),    \* #800080
       hex_to_rgba(75, 0, 130) >>   \* #4B0082

LayerBreaks(layer) ==
    IF layer \in LayerNames THEN StyleBreaks(layer) ELSE FallbackBreaks

LayerColors(layer) ==
    IF layer \in LayerNames THEN StyleColors(layer) ELSE FallbackColors

\* ------------------------------------------------------------------------
\* apply_pm25_colormap, one pixel at a time (the code is vectorised; every
\* pixel is treated independently, later assignments overwrite earlier ones)
\* ------------------------------------------------------------------------
IndexError == <<>>

\* ---- IEEE-754 binary32 (np.float32), non-negative values only ----------
\* A float is [m, e] standing for m * 2^e with m = 0 or 2^23 <= m < 2^24.
\* Every operation returns the exact result rounded to nearest, ties to
\* even.  All intermediate integers stay below 2^31.
RECURSIVE Pow2(_)
Pow2(n) == IF n <= 0 THEN 1 ELSE 2 * Pow2(n - 1)

RECURSIVE BitLen(_)
BitLen(n) == IF n = 0 THEN 0 ELSE 1 + BitLen(n \div 2)

F32Zero == [m |-> 0, e |-> 0]
F32One == [m |-> Pow2(23), e |-> -23]

\* round n * 2^e (plus, when sticky, a positive amount below 2^e) to 24 bits
F32Round(n, e, sticky) ==
    IF n = 0 THEN F32Zero
    ELSE LET bits == BitLen(n)
         IN  IF bits <= 24
             THEN [m |-> n * Pow2(24 - bits), e |-> e - (24 - bits)]
             ELSE LET k == bits - 24
                      q == n \div Pow2(k)
                      r == n % Pow2(k)
                      half == Pow2(k - 1)
                      up == r > half \/ (r = half /\ (sticky \/ q % 2 = 1))
                      q1 == IF up THEN q + 1 ELSE q
                  IN  IF q1 = Pow2(24) THEN [m |-> Pow2(23), e |-> e + k + 1]
                      ELSE [m |-> q1, e |-> e + k]

\* x <= y
F32Leq(x, y) ==
    IF x.m = 0 THEN TRUE
    ELSE IF y.m = 0 THEN FALSE
    ELSE x.e < y.e \/ (x.e = y.e /\ x.m <= y.m)

\* the mantissa of y moved to exponent e >= y.e: <<quotient, inexact>>
F32Shift(y, e) ==
    LET d == e - y.e
    IN  IF d >= 30 THEN <<0, y.m # 0>>
        ELSE <<y.m \div Pow2(d), y.m % Pow2(d) # 0>>

\* x + y
F32Add(x, y) ==
    IF x.m = 0 THEN y
    ELSE IF y.m = 0 THEN x
    ELSE LET hi == IF F32Leq(y, x) THEN x ELSE y
             lo == IF F32Leq(y, x) THEN y ELSE x
             d == hi.e - lo.e
         IN  IF d <= 6 THEN F32Round(hi.m * Pow2(d) + lo.m, lo.e, FALSE)
             ELSE LET sh == F32Shift(lo, hi.e - 6)
                  IN  F32Round(hi.m * 64 + sh[1], hi.e - 6, sh[2])

\* x - y for x >= y
F32Sub(x, y) ==
    IF y.m = 0 THEN x
    ELSE LET d == x.e - y.e
         IN  IF d <= 6 THEN F32Round(x.m * Pow2(d) - y.m, y.e, FALSE)
             ELSE LET sh == F32Shift(y, x.e - 6)
                  IN  IF sh[2]
                      THEN F32Round(x.m * 64 - sh[1] - 1, x.e - 6, TRUE)
                      ELSE F32Round(x.m * 64 - sh[1], x.e - 6, FALSE)

\* x * c for an integer 0 <= c <= 255
F32MulInt(x, c) ==
    IF x.m = 0 \/ c = 0 THEN F32Zero
    ELSE LET h == x.m \div 4096
             l == x.m % 4096
             p == c * h + (c * l) \div 4096
             q == (c * l) % 4096
         IN  IF p < Pow2(18) THEN F32Round(p * 4096 + q, x.e, FALSE)
             ELSE F32Round(p * 256 + q \div 16, x.e + 4, q % 16 # 0)

\* the next `bits` quotient bits of rem / den: <<quotient, remainder>>
RECURSIVE LongDiv(_, _, _, _)
LongDiv(quot, rem, den, bits) ==
    IF bits = 0 THEN <<quot, rem>>
    ELSE IF 2 * rem >= den
         THEN LongDiv(2 * quot + 1, 2 * rem - den, den, bits - 1)
         ELSE LongDiv(2 * quot, 2 * rem, den, bits - 1)

\* num / den for integers 0 <= num < 2^24, 0 < den < 2^24
F32Ratio(num, den) ==
    IF num = 0 THEN F32Zero
    ELSE LET bn == BitLen(num)
             bd == BitLen(den)
             n1 == num * Pow2(24 - bn)
             d1 == den * Pow2(24 - bd)
             \* n1 / d1 is in (1/2, 2); take 27 quotient bits of it
             first == n1 \div d1
             ld == LongDiv(first, n1 % d1, d1, 26)
         IN  F32Round(ld[1], (bn - bd) - 26, ld[2] # 0)

\* x / y
F32Div(x, y) ==
    IF x.m = 0 THEN F32Zero
    ELSE LET r == F32Ratio(x.m, y.m)
         IN  [m |-> r.m, e |-> r.e + x.e - y.e]

\* astype(np.uint8) of a value below 256: truncation
F32Trunc(x) ==
    IF x.m = 0 THEN 0
    ELSE IF x.e >= 0 THEN x.m * Pow2(x.e)
    ELSE IF -x.e >= 30 THEN 0
    ELSE x.m \div Pow2(-x.e)

\* the float32 nearest to a sample or threshold given in thousandths (>= 0)
F32OfThousandths(v) == F32Ratio(v, Scale)

\* one channel of
\*   t = np.clip((data - lower) / range_width, 0.0, 1.0)
\*   ((1 - t) * color_start + t * color_end).astype(np.uint8)
\* for a sample v with lower <= v < upper, all in float32
Interpolate(a, b, v, lower, upper) ==
    LET raw == F32Div(F32Sub(F32OfThousandths(v), F32OfThousandths(lower)),
                      F32OfThousandths(upper - lower))
        t == IF F32Leq(raw, F32One) THEN raw ELSE F32One
    IN  F32Trunc(F32Add(F32MulInt(F32Sub(F32One, t), a), F32MulInt(t, b)))

InterpolateColor(ca, cb, v, lower, upper) ==
    [ch \in 1..4 |-> Interpolate(ca[ch], cb[ch], v, lower, upper)]

\* body of `for i in range(len(self.color_breaks) - 1)`, iterations i..n-1,
\* acc is the pixel of rgba_image so far (1-based i)
RECURSIVE ColorLoop(_, _, _, _, _)
ColorLoop(v, breaks, colors, i, acc) ==
    IF i > Len(breaks) - 1 THEN acc
    ELSE LET lower == breaks[i]
             upper == breaks[i + 1]
             inMask == v >= lower /\ v < upper
         IN  IF ~inMask THEN ColorLoop(v, breaks, colors, i + 1, acc)
             ELSE IF upper - lower > 0
                  THEN IF i + 1 > Len(colors) THEN IndexError
                       ELSE ColorLoop(v, breaks, colors, i + 1,
                              InterpolateColor(colors[i], colors[i + 1],
                                               v, lower, upper))
                  ELSE IF i > Len(colors) THEN IndexError
                       ELSE ColorLoop(v, breaks, colors, i + 1, colors[i])

\* the same function with the final clamp testing `>` instead of `>=`
ColorAtStrictClamp(v, breaks, colors) ==
    IF Len(breaks) = 0 \/ Len(colors) = 0 THEN IndexError
    ELSE IF IsNaN(v) THEN Transparent
    ELSE LET looped == ColorLoop(v, breaks, colors, 1, Transparent)
         IN  IF looped = IndexError THEN IndexError
             ELSE IF v > breaks[Len(breaks)] THEN colors[Len(colors)]
             ELSE looped

\* apply_pm25_colormap for one sample v
ColorAt(v, breaks, colors) ==
    IF Len(breaks) = 0 \/ Len(colors) = 0 THEN IndexError
    ELSE IF IsNaN(v) THEN Transparent
    ELSE LET looped == ColorLoop(v, breaks, colors, 1, Transparent)
         IN  IF looped = IndexError THEN IndexError
             ELSE IF v >= breaks[Len(breaks)] THEN colors[Len(colors)]
             ELSE looped


\* apply_pm25_colormap on a 2D array: an index error on any pixel aborts
\* the whole call
Rows(data) == Len(data)
Cols(data) == IF Len(data) = 0 THEN 0 ELSE Len(data[1])
Cells(data) == (1..Rows(data)) \X (1..Cols(data))

\* rgba_image, given the pixel computed for every distinct sample
Colorize(data, pixel) ==
    IF \E v \in DOMAIN pixel : pixel[v] = IndexError
    THEN IndexError
    ELSE [r \in 1..Rows(data) |->
            [c \in 1..Cols(data) |-> pixel[data[r][c]]]]

apply_pm25_colormap(data, breaks, colors) ==
    Colorize(data, [v \in { data[rc[1]][rc[2]] : rc \in Cells(data) } |->
                      ColorAt(v, breaks, colors)])

\* ------------------------------------------------------------------------
\* fill_missing_with_neighbor_mean
\* ------------------------------------------------------------------------
\* source = np.where(np.isnan(data), 0.0, data)
NanToZero(data) ==
    [r \in 1..Rows(data) |->
       [c \in 1..Cols(data) |-> IF IsNaN(data[r][c]) THEN 0 ELSE data[r][c]]]

\* the four shifted copies of source; dir is "up", "down", "left", "right"
Shifted(source, dir) ==
    [r \in 1..Rows(source) |->
       [c \in 1..Cols(source) |->
          CASE dir = "up"    -> IF r > 1 THEN source[r - 1][c] ELSE 0
            [] dir = "down"  -> IF r < Rows(source) THEN source[r + 1][c] ELSE 0
            [] dir = "left"  -> IF c > 1 THEN source[r][c - 1] ELSE 0
            [] dir = "right" -> IF c < Cols(source) THEN source[r][c + 1] ELSE 0]]

\* an iteration overwriting whenever the neighbour holds data
FillStepOverwrite(filled, neighbor) ==
    [r \in 1..Rows(filled) |->
       [c \in 1..Cols(filled) |->
          IF neighbor[r][c] # 0
          THEN neighbor[r][c] ELSE filled[r][c]]]

\* one iteration of `for neighbor in (up, down, left, right)`
FillStep(filled, neighbor) ==
    [r \in 1..Rows(filled) |->
       [c \in 1..Cols(filled) |->
          IF filled[r][c] = 0 /\ neighbor[r][c] # 0
          THEN neighbor[r][c] ELSE filled[r][c]]]

\* a fill that shifts the array as filled so far, not the source
FillFromFilled(data) ==
    LET source == NanToZero(data)
        step(filled, dir) == FillStep(filled, Shifted(filled, dir))
    IN  IF ~(\E rc \in Cells(source) : source[rc[1]][rc[2]] = 0)
        THEN source
        ELSE step(step(step(step(source, "up"), "down"), "left"), "right")

fill_missing_with_neighbor_mean(data) ==
    LET source == NanToZero(data)
    IN  IF ~(\E rc \in Cells(source) : source[rc[1]][rc[2]] = 0)
        THEN source
        ELSE FillStep(FillStep(FillStep(FillStep(source,
                 Shifted(source, "up")), Shifted(source, "down")),
                 Shifted(source, "left")), Shifted(source, "right"))

\* ------------------------------------------------------------------------
\* generate_tile
\* ------------------------------------------------------------------------
None == <<>>

\* np.count_nonzero(~np.isnan(data))
CountValid(data) ==
    Cardinality({rc \in Cells(data) : ~IsNaN(data[rc[1]][rc[2]])})

\* the coverage test without its 2% floor (only an empty window is rejected)
CoverageRejectedNoFloor(data) ==
    CountValid(data) = 0

\* valid_ratio == 0.0 or valid_ratio < 0.02, with valid_ratio = valid / size
CoverageRejected(data) ==
    LET valid == CountValid(data)
        size == Rows(data) * Cols(data)
    IN  valid = 0 \/ valid * 100 < 2 * size

\* np.all(rgba_data[:, :, 3] == 0)
FullyTransparent(rgba) ==
    \A rc \in Cells(rgba) : rgba[rc[1]][rc[2]][4] = 0

\* generate_tile on the window `data` that _extract_tile_data returned
\* (None when there is no window).  fault injects an exception of the raster
\* library ("read") or of the PNG writer ("write").  The outcome is
\*   "path"     a PNG (image) was written and its path returned,
\*   "skipped"  None was returned without an exception,
\*   "caught"   an exception was caught by the try/except, None returned,
\*   "escaped"  an exception left generate_tile (the code has no such path).
\* the part of generate_tile after colourising
SaveTile(rgba, fault) ==
    IF rgba = IndexError THEN [outcome |-> "caught", image |-> None]
    ELSE IF FullyTransparent(rgba) THEN [outcome |-> "skipped", image |-> None]
    ELSE IF fault = "write" THEN [outcome |-> "caught", image |-> None]
    ELSE [outcome |-> "path", image |-> rgba]

\* the body of the try block of generate_tile
GenerateTileBody(data, breaks, colors, fault) ==
    IF fault = "read" THEN [outcome |-> "caught", image |-> None]
    ELSE IF data = None THEN [outcome |-> "skipped", image |-> None]
    ELSE IF CoverageRejected(data) THEN [outcome |-> "skipped", image |-> None]
    ELSE SaveTile(apply_pm25_colormap(
                      fill_missing_with_neighbor_mean(data), breaks, colors),
                  fault)

\* generate_tile without its try/except
GenerateTileNoExcept(data, breaks, colors, fault) ==
    LET r == GenerateTileBody(data, breaks, colors, fault)
    IN  IF r.outcome = "caught" THEN [r EXCEPT !.outcome = "escaped"] ELSE r

\* generate_tile: the try block and its `except Exception`, which logs the
\* failure and returns None
GenerateTile(data, breaks, colors, fault) ==
    GenerateTileBody(data, breaks, colors, fault)

\* ------------------------------------------------------------------------
\* __init__ and threshold calibration
\* ------------------------------------------------------------------------
\* `is None` for numbers (data_min, data_max) and for lists (the optional
\* constructor arguments)
Unset == -2000000000
NoList == <<>>

\* the color_breaks chosen by __init__
InitColorBreaks(layer, color_breaks_arg, override, legacy) ==
    IF color_breaks_arg # NoList THEN color_breaks_arg
    ELSE IF override # NoList /\ ~legacy THEN override
    ELSE LayerBreaks(layer)

\* the colors chosen by __init__
InitColors(layer, colors_arg) ==
    IF colors_arg # NoList THEN colors_arg ELSE LayerColors(layer)

\* the ladder of _round_up_to_nice_value, in thousandths
NiceLadder ==
    << 10000, 20000, 30000, 40000, 50000, 60000, 70000, 80000, 90000, 100000,
       120000, 150000, 200000, 250000, 300000, 400000, 500000, 600000, 700000,
       800000, 900000, 1000000 >>

\* 10 ** int(math.log10(value)), in thousandths, for value > 1000.0
RECURSIVE OrderOf(_, _)
OrderOf(value, order) ==
    IF order * 10 <= value THEN OrderOf(value, order * 10) ELSE order

CeilDiv(a, b) == (a + b - 1) \div b

\* rounding up to the next multiple of ten
RoundUpToNextTen(value) ==
    IF value <= 0 THEN Scale ELSE CeilDiv(value, 10 * Scale) * 10 * Scale

\* _round_up_to_nice_value
round_up_to_nice_value(value) ==
    IF value <= 0 THEN Scale
    ELSE IF \E k \in 1..Len(NiceLadder) : value <= NiceLadder[k]
         THEN NiceLadder[CHOOSE k \in 1..Len(NiceLadder) :
                            /\ value <= NiceLadder[k]
                            /\ \A j \in 1..(k - 1) : value > NiceLadder[j]]
    ELSE LET order == OrderOf(value, Scale)
         IN  CeilDiv(value, order) * order

\* 0.01
Cent == Scale \div 100

\* q + r / den (0 <= r < den) rounded to the nearest integer, ties to even
RoundHalfEven(q, r, den) ==
    IF 2 * r < den THEN q
    ELSE IF 2 * r > den THEN q + 1
    ELSE IF q % 2 = 0 THEN q ELSE q + 1

\* num / den (den > 0) rounded to the nearest integer, ties to even
RoundDiv(num, den) == RoundHalfEven(num \div den, num % den, den)

\* [round(float(t), 2) for t in np.linspace(start_val, max_val, num_classes)]
\* with start_val = 0: entry i is (i - 1) * max_val / (num_classes - 1)
\* rounded to a whole number of hundredths.  The quotient is split so that
\* no intermediate integer exceeds 2^31.
Linspace(max_val, num_classes) ==
    [i \in 1..num_classes |->
       LET den == (num_classes - 1) * Cent
           part == (i - 1) * (max_val % den)
       IN  Cent * RoundHalfEven((i - 1) * (max_val \div den) + part \div den,
                                part % den, den)]

\* the loop that makes the thresholds strictly increasing, iterations
\* lo..hi (1-based), where prev is the value entry lo - 1 has when iteration
\* lo starts.  The iterations run in order; the range is split in two only
\* to keep the evaluation shallow.  bumpEqual is TRUE for the `<=` of the
\* code.
RECURSIVE BumpRange(_, _, _, _, _)
BumpRange(breaks, lo, hi, prev, bumpEqual) ==
    IF lo > hi THEN <<>>
    ELSE IF lo = hi
         THEN << IF breaks[lo] < prev \/ (bumpEqual /\ breaks[lo] = prev)
                 THEN prev + Cent ELSE breaks[lo] >>
    ELSE LET mid == (lo + hi) \div 2
             left == BumpRange(breaks, lo, mid, prev, bumpEqual)
         IN  left \o BumpRange(breaks, mid + 1, hi, left[Len(left)],
                               bumpEqual)

\* the same loop comparing with `<`, so that equal neighbours are kept
BumpLoopLess(breaks) ==
    IF Len(breaks) = 0 THEN breaks
    ELSE <<breaks[1]>> \o BumpRange(breaks, 2, Len(breaks), breaks[1], FALSE)

BumpLoop(breaks) ==
    IF Len(breaks) = 0 THEN breaks
    ELSE <<breaks[1]>> \o BumpRange(breaks, 2, Len(breaks), breaks[1], TRUE)

\* dynamic_breaks of _maybe_prepare_dynamic_thresholds
DynamicBreaks(dmax, num_classes) ==
    LET max_val == IF ~IsFinite(dmax) \/ dmax <= 0 THEN Scale ELSE dmax
    IN  BumpLoop(Linspace(round_up_to_nice_value(max_val), num_classes))

\* _maybe_prepare_dynamic_thresholds: the pair it leaves in
\* (self.dynamic_thresholds, self.color_breaks)
\* the same without the test of the layer name
PrepareDynamicThresholdsAnyLayer(layer, legacy, override, dmin, dmax, cols, breaks, dyn) ==
    IF legacy THEN <<dyn, breaks>>
    ELSE IF override # NoList THEN <<override, override>>
    ELSE IF dmax = Unset \/ dmin = Unset THEN <<dyn, breaks>>
    ELSE IF Len(cols) < 2 THEN <<dyn, breaks>>
    ELSE LET d == DynamicBreaks(dmax, Len(cols)) IN <<d, d>>

maybe_prepare_dynamic_thresholds(layer, legacy, override, dmin, dmax, cols, breaks, dyn) ==
    IF layer \notin {"pm25", "precipitation"} THEN <<dyn, breaks>>
    ELSE IF legacy THEN <<dyn, breaks>>
    ELSE IF override # NoList THEN <<override, override>>
    ELSE IF dmax = Unset \/ dmin = Unset THEN <<dyn, breaks>>
    ELSE IF Len(cols) < 2 THEN <<dyn, breaks>>
    ELSE LET d == DynamicBreaks(dmax, Len(cols)) IN <<d, d>>

StrictlyIncreasing(seq) ==
    \A i \in 1..(Len(seq) - 1) : seq[i] < seq[i + 1]


\* ------------------------------------------------------------------------
\* Tile math and tile extraction
\*
\* Geography is measured in world units on the projected (Web-Mercator)
\* plane: x runs west to east and y north to south, both from 0 to World,
\* so that deg2num is the floor of a linear map.  The raster is a box of the
\* plane holding one sample value.
\* ------------------------------------------------------------------------
FinestZoom == 2
TileSide == 2

World == Pow2(FinestZoom) * 2 * TileSide
Eighth == World \div 8

\* int(num / den) for den > 0: the quotient truncated towards zero
IntOf(num, den) ==
    IF num >= 0 THEN num \div den ELSE 0 - ((0 - num) \div den)

\* deg2num(lat, lon, zoom) for zoom >= 0: (xtile, ytile)
deg2num(lat, lon, zoom) ==
    <<IntOf(lon * Pow2(zoom), World), IntOf(lat * Pow2(zoom), World)>>

\* num2deg(xtile, ytile, zoom): (lat, lon) of the north-west corner
num2deg(xtile, ytile, zoom) ==
    <<(ytile * World) \div Pow2(zoom), (xtile * World) \div Pow2(zoom)>>

\* _extract_tile_data: None when the tile's window does not meet the raster
\* or holds only NaN, otherwise the window resampled to TileSide x TileSide
\* (a pixel whose centre the raster does not cover is 0)
ExtractTileData(src, zoom, x, y) ==
    LET nw == num2deg(x, y, zoom)
        se == num2deg(x + 1, y + 1, zoom)
        lat_max == nw[1]
        lon_min == nw[2]
        lat_min == se[1]
        lon_max == se[2]
        \* pixel centres, in units of 1 / (2 * TileSide)
        cx(c) == 2 * TileSide * lon_min + (2 * c - 1) * (lon_max - lon_min)
        cy(r) == 2 * TileSide * lat_max + (2 * r - 1) * (lat_min - lat_max)
        covered(r, c) ==
            /\ 2 * TileSide * src.west <= cx(c)
            /\ cx(c) < 2 * TileSide * src.east
            /\ 2 * TileSide * src.north <= cy(r)
            /\ cy(r) < 2 * TileSide * src.south
    IN  IF \/ lon_max <= src.west \/ lon_min >= src.east
           \/ lat_min <= src.north \/ lat_max >= src.south
        THEN None
        ELSE IF IsNaN(src.value) THEN None
        ELSE [r \in 1..TileSide |->
                [c \in 1..TileSide |->
                   IF covered(r, c) THEN src.value ELSE 0]]

\* the rectangle of the corner tiles, clamped, without the margin
TileRangeWithoutMargin(src, zoom) ==
    LET sw == deg2num(src.south, src.west, zoom)
        ne == deg2num(src.north, src.east, zoom)
    IN  << Max2(0, sw[1]), Min2(Pow2(zoom) - 1, ne[1]),
           Max2(0, ne[2]), Min2(Pow2(zoom) - 1, sw[2]) >>

\* the tile rectangle of generate_tiles_for_zoom (zoom >= 0):
\* <<x_min, x_max, y_min, y_max>>
TileRange(src, zoom) ==
    LET sw == deg2num(src.south, src.west, zoom)
        ne == deg2num(src.north, src.east, zoom)
    IN  << Max2(0, sw[1] - 1), Min2(Pow2(zoom) - 1, ne[1] + 1),
           Max2(0, ne[2] - 1), Min2(Pow2(zoom) - 1, sw[2] + 1) >>

\* the futures list of generate_tiles_for_zoom: x outer, y inner
RECURSIVE RangeSeq(_, _)
RangeSeq(lo, hi) == IF lo > hi THEN <<>> ELSE <<lo>> \o RangeSeq(lo + 1, hi)

RECURSIVE Flatten(_)
Flatten(ss) == IF ss = <<>> THEN <<>> ELSE Head(ss) \o Flatten(Tail(ss))

SubmitOrder(src, zoom) ==
    LET rng == TileRange(src, zoom)
        xs == RangeSeq(rng[1], rng[2])
        ys == RangeSeq(rng[3], rng[4])
    IN  Flatten([i \in 1..Len(xs) |-> [j \in 1..Len(ys) |-> <<xs[i], ys[j]>>]])

\* QLD_BOUNDS of config/grid_config.py placed on the model's plane
QLD_BOUNDS == [west |-> 5 * Eighth, east |-> 7 * Eighth,
               north |-> 5 * Eighth, south |-> 7 * Eighth]

OutsideQueensland(src) ==
    \/ src.east <= QLD_BOUNDS.west \/ src.west >= QLD_BOUNDS.east
    \/ src.south <= QLD_BOUNDS.north \/ src.north >= QLD_BOUNDS.south


\* ------------------------------------------------------------------------
\* Metadata writer
\* ------------------------------------------------------------------------
\* the parity of the last of the next `bits` quotient bits of rem / den and
\* the remainder they leave: <<last, remainder>>
RECURSIVE BitsOf(_, _, _, _)
BitsOf(rem, den, bits, last) ==
    IF bits <= 0 THEN <<last, rem>>
    ELSE IF 2 * rem >= den THEN BitsOf(2 * rem - den, den, bits - 1, 1)
    ELSE BitsOf(2 * rem, den, bits - 1, 0)

\* the fraction rem / den (0 < rem < den) moved past its leading zero bits
RECURSIVE SkipZeros(_, _)
SkipZeros(rem, den) ==
    IF 2 * rem >= den THEN rem ELSE SkipZeros(2 * rem, den)

\* the sign of fl(num / den) - num / den, where fl is the binary float of
\* `bits` significant bits nearest to the quotient (53 for a Python float,
\* 24 for np.float32); num >= 0, den > 0
BinaryErrorSign(num, den, bits) ==
    LET ip == num \div den
        rem == num % den
    IN  IF rem = 0 THEN 0
        ELSE LET st == IF ip > 0
                       THEN BitsOf(rem, den, bits - BitLen(ip), ip % 2)
                       ELSE BitsOf(SkipZeros(rem, den), den, bits, 0)
             IN  IF st[2] = 0 THEN 0
                 ELSE IF 2 * st[2] > den THEN 1
                 ELSE IF 2 * st[2] < den THEN -1
                 ELSE IF st[1] = 1 THEN 1 ELSE -1

\* round(float(v), 2) of the float of `bits` significant bits that holds v:
\* the hundredth nearest to the float's exact value, ties to even
Round2(v, bits) ==
    IF ~IsFinite(v) THEN v
    ELSE LET a == IF v < 0 THEN -v ELSE v
             q == a \div Cent
             r == a % Cent
             s == BinaryErrorSign(a, Scale, bits)
             cents == IF 2 * r # Cent \/ s = 0
                      THEN RoundHalfEven(q, r, Cent)
                      ELSE IF s > 0 THEN q + 1 ELSE q
         IN  (IF v < 0 THEN -1 ELSE 1) * cents * Cent

\* a metadata document that records the layer's default breakpoints
WriteMetadataDefaults(layer, dmin, dmax, dyn, breaks, legacy) ==
    [ layer |-> layer,
      data_min |-> IF dmin = Unset THEN 0 ELSE Round2(dmin, 24),
      data_max |-> IF dmax = Unset THEN 0 ELSE Round2(dmax, 24),
      thresholds |-> LayerBreaks(layer),
      use_legacy_thresholds |-> legacy ]

\* the document _write_metadata dumps (generated_at left out); data_min and
\* data_max are np.float32 samples, the thresholds Python floats
WriteMetadata(layer, dmin, dmax, dyn, breaks, legacy) ==
    LET thresholds == IF dyn # NoList THEN dyn ELSE breaks
    IN  [ layer |-> layer,
          data_min |-> IF dmin = Unset THEN 0 ELSE Round2(dmin, 24),
          data_max |-> IF dmax = Unset THEN 0 ELSE Round2(dmax, 24),
          thresholds |-> [i \in 1..Len(thresholds) |->
                            Round2(thresholds[i], 53)],
          use_legacy_thresholds |-> legacy ]

\* ------------------------------------------------------------------------
\* State
\* ------------------------------------------------------------------------
VARIABLES
    pc,                     \* position of the caller in generate_all_tiles
    exc,                    \* the exception raised to the caller, if any
    geotiff,                \* the source raster file
    layer_name,
    zoom_levels,
    use_legacy_thresholds,
    thresholds_override,
    color_breaks,
    colors,
    dynamic_thresholds,
    data_min,
    data_max,
    fault,                  \* the tile on which the environment fails
    zi,                     \* index of the zoom level being processed
    submitted,              \* futures of the current batch, in submit order
    tasks,                  \* state of every future of the current batch
    total_generated,
    dispatched,             \* number of executor.submit calls so far
    finished,               \* number of tile tasks that have returned
    caught,                 \* tiles whose task caught an exception
    files,                  \* PNG files under output_dir/layer_name
    metadata,               \* metadata.json, NoList while absent
    result,                 \* value returned by generate_all_tiles
    handles,                \* the open raster handle of every future
    opened,                 \* number of rasterio.open calls so far
    arg,                    \* argument of the function under test
    out,                    \* its result
    out2,                   \* its result when applied again
    layer_dir,              \* tiles_root / layer of upsample_layer
    min_zoom,
    max_zoom,
    up_zoom,                \* loop variable `zoom` of upsample_layer
    up_total,               \* `total` of upsample_layer
    calls,                  \* number of calls of upsample_layer so far
    first_call,             \* what the first call left and returned
    svc_kind,               \* the service script: "api" or "tiles"
    pid_file,               \* the pid in PID_FILE, NoPid while absent
    meta_file,              \* META_FILE, NoMeta while absent
    procs,                  \* the command line of every live process
    command,                \* the last invocation: "up" or "down"
    exit_code,              \* its exit status
    report,                 \* what it printed
    svc_env,                \* the environment of that invocation
    invocations,            \* the invocations that run side by side
    pipe_env,               \* the environment pipeline.py was started in
    results,                \* `results` of main of pipeline.py
    pipeline_rc             \* the exit status of pipeline.py

vars == << pc, exc, geotiff, layer_name, zoom_levels, use_legacy_thresholds,
           thresholds_override, color_breaks, colors, dynamic_thresholds,
           data_min, data_max, fault, zi, submitted, tasks, total_generated,
           dispatched, finished, caught, files, metadata, result,
           handles, opened, arg, out, out2, layer_dir, min_zoom, max_zoom, up_zoom,
           up_total, calls, first_call, svc_kind, pid_file, meta_file,
           procs, command, exit_code, report, svc_env, invocations,
           pipe_env, results, pipeline_rc >>

svcVars == << svc_kind, pid_file, meta_file, procs, command, exit_code,
             report, svc_env, invocations >>

pipeVars == << pipe_env, results, pipeline_rc >>

upVars == << layer_dir, min_zoom, max_zoom, up_zoom, up_total, calls,
            first_call >>

genVars == << geotiff, layer_name, zoom_levels, use_legacy_thresholds,
              thresholds_override, colors, fault >>
runVars == << zi, submitted, tasks, total_generated, dispatched, finished,
              caught, metadata, result, exc, handles, opened >>

MaxWorkers == 4


\* ------------------------------------------------------------------------
\* Inputs of a generation run
\* ------------------------------------------------------------------------
Box(w, e, n, s_) == [west |-> w * Eighth, east |-> e * Eighth,
                     north |-> n * Eighth, south |-> s_ * Eighth]

\* one tile of zoom 2 exactly; part of one tile of zoom 2; a box inside
\* Queensland
RasterBoxes == { Box(0, 2, 0, 2), Box(0, 1, 0, 1), Box(5, 6, 5, 6) }

\* 20.0, 45.0, all NaN
RasterValues == { 20000, 45000, NaN }

Rasters ==
    { [exists |-> ex, west |-> b.west, east |-> b.east, north |-> b.north,
       south |-> b.south, value |-> v] :
         ex \in BOOLEAN, b \in RasterBoxes, v \in RasterValues }

RunLayers == { "pm25", "temperature" }

\* no override; seven thresholds (more than the five colours of a layer)
RunOverrides == { NoList, <<0, 10000, 20000, 30000, 40000, 50000, 60000>> }

\* a command-line token is the sequence of its characters
Digits == {"0", "1", "2", "3", "4", "5", "6", "7", "8", "9"}

DigitValue(ch) ==
    CASE ch = "0" -> 0 [] ch = "1" -> 1 [] ch = "2" -> 2 [] ch = "3" -> 3
      [] ch = "4" -> 4 [] ch = "5" -> 5 [] ch = "6" -> 6 [] ch = "7" -> 7
      [] ch = "8" -> 8 [] ch = "9" -> 9

\* the call raises ValueError
ValueError == [ok |-> FALSE, value |-> <<>>]

\* the call returns v
Returns(v) == [ok |-> TRUE, value |-> v]

RECURSIVE DecimalValue(_)
DecimalValue(chars) ==
    IF chars = <<>> THEN 0
    ELSE 10 * DecimalValue(SubSeq(chars, 1, Len(chars) - 1))
           + DigitValue(chars[Len(chars)])

\* int(text) for a text of digits and "-": an optional sign and at least
\* one digit, ValueError otherwise
ParseInt(chars) ==
    LET body == IF chars # <<>> /\ chars[1] = "-" THEN Tail(chars)
                ELSE chars
    IN  IF body = <<>> \/ \E i \in DOMAIN body : body[i] \notin Digits
        THEN ValueError
        ELSE IF body = chars THEN Returns(DecimalValue(body))
        ELSE Returns(0 - DecimalValue(body))

\* _parse_zoom_arg: "a-b" is list(range(a, b + 1)), "a" is [a]
parse_zoom_arg(token) ==
    IF \E i \in DOMAIN token : token[i] = "-"
    THEN LET cut == CHOOSE i \in DOMAIN token :
                       /\ token[i] = "-"
                       /\ \A j \in 1..(i - 1) : token[j] # "-"
             start == ParseInt(SubSeq(token, 1, cut - 1))
             end == ParseInt(SubSeq(token, cut + 1, Len(token)))
         IN  IF ~start.ok \/ ~end.ok THEN ValueError
             ELSE Returns(RangeSeq(start.value, end.value))
    ELSE IF ~ParseInt(token).ok THEN ValueError
    ELSE Returns(<<ParseInt(token).value>>)

\* the tokens main hands to _parse_zoom_arg (l.516): at most MaxToken
\* characters, digits and "-", at least one digit
MaxToken == 3
TokenChars == {"-", "0", "1", "2"}
ZoomTokens ==
    { t \in UNION { [1..n -> TokenChars] : n \in 1..MaxToken } :
         \E i \in DOMAIN t : t[i] \in Digits }

\* the lists of the command line "2" and "1-2"; lists only a caller of
\* the constructor can pass: a negative level, a repeated level
ZoomLists == { parse_zoom_arg(<<"2">>).value,
               parse_zoom_arg(<<"1", "-", "2">>).value,
               <<2, -1>>, <<-1, 2>>, <<1, 1>> }

NoFault == [kind |-> "none", tile |-> <<0, 0, 0>>]
Faults == { NoFault,
            [kind |-> "read", tile |-> <<2, 1, 1>>],
            [kind |-> "write", tile |-> <<2, 0, 0>>] }

FaultFor(zoom, x, y) ==
    IF fault.kind # "none" /\ fault.tile = <<zoom, x, y>>
    THEN fault.kind ELSE "none"

\* the pure-function variables while a run is modelled
PureIdle == arg = NoList /\ out = NoList /\ out2 = NoList

\* number of process ids
MaxPid == 3
Pids == 1..MaxPid

NoPid == 0
NoMeta == <<>>

\* the environment of an invocation: API_TEST_MODE / TILES_TEST_MODE,
\* API_FORCE_KILL / TILES_FORCE_KILL, and whether `ps` can be run
Env(test_mode, force_kill, ps_works) == [test_mode |-> test_mode, force_kill |-> force_kill, ps_works |-> ps_works]

\* neither variable is set and `ps` can be run
PlainEnv == Env(FALSE, FALSE, TRUE)

\* no service is managed
SvcIdle ==
    /\ svc_env = PlainEnv
    /\ invocations = <<>>
    /\ svc_kind = "api"
    /\ pid_file = NoPid
    /\ meta_file = NoMeta
    /\ procs = [p \in Pids |-> "free"]
    /\ command = "none"
    /\ exit_code = 0
    /\ report = "none"

\* pipeline.py is not running
PipeIdle ==
    /\ pipe_env = NoList
    /\ results = <<>>
    /\ pipeline_rc = Unset

\* no tile tree is being upsampled
UpIdle ==
    /\ layer_dir = [exists |-> FALSE, tiles |-> <<>>]
    /\ min_zoom = 0
    /\ max_zoom = 0
    /\ up_zoom = 0
    /\ up_total = 0
    /\ calls = 0
    /\ first_call = NoList

\* the generator's run state as __init__ leaves it
GeneratorFresh ==
    /\ exc = "none"
    /\ data_min = Unset
    /\ data_max = Unset
    /\ dynamic_thresholds = NoList
    /\ zi = 0
    /\ submitted = <<>>
    /\ tasks = <<>>
    /\ total_generated = 0
    /\ dispatched = 0
    /\ finished = 0
    /\ caught = {}
    /\ files = <<>>
    /\ metadata = NoList
    /\ result = Unset
    /\ handles = <<>>
    /\ opened = 0

\* the state __init__ leaves
RunFresh == UpIdle /\ SvcIdle /\ PipeIdle /\ GeneratorFresh

Constructed == pc = "constructed" /\ RunFresh

Init ==
    /\ geotiff \in Rasters
    /\ layer_name \in RunLayers
    /\ zoom_levels \in ZoomLists
    /\ use_legacy_thresholds \in BOOLEAN
    /\ thresholds_override \in RunOverrides
    /\ fault \in Faults
    /\ color_breaks = InitColorBreaks(layer_name, NoList,
                                      thresholds_override,
                                      use_legacy_thresholds)
    /\ colors = InitColors(layer_name, NoList)
    /\ Constructed
    /\ PureIdle

\* ------------------------------------------------------------------------
\* generate_all_tiles
\* ------------------------------------------------------------------------
\* the source file does not exist: FileNotFoundError
MissingSource ==
    /\ pc = "constructed"
    /\ ~geotiff.exists
    /\ pc' = "raised"
    /\ exc' = "FileNotFoundError"
    /\ UNCHANGED << genVars, pipeVars, svcVars, upVars, handles, opened, color_breaks, dynamic_thresholds, data_min,
                    data_max, zi, submitted, tasks, total_generated,
                    dispatched, finished, caught, files, metadata, result,
                    arg, out, out2 >>

\* read the data range and calibrate the thresholds
ReadAndCalibrate ==
    /\ pc = "constructed"
    /\ geotiff.exists
    /\ data_min' = geotiff.value
    /\ data_max' = geotiff.value
    /\ LET cal == maybe_prepare_dynamic_thresholds(layer_name,
                      use_legacy_thresholds, thresholds_override,
                      geotiff.value, geotiff.value, colors, color_breaks,
                      dynamic_thresholds)
       IN  /\ dynamic_thresholds' = cal[1]
           /\ color_breaks' = cal[2]
    /\ total_generated' = 0
    /\ zi' = 1
    /\ opened' = opened + 1
    /\ pc' = "zoom_loop"
    /\ UNCHANGED << genVars, pipeVars, svcVars, upVars, handles, submitted, tasks, dispatched, finished, caught,
                    files, metadata, result, exc, arg, out, out2 >>

CurrentZoom == zoom_levels[zi]

\* a future that holds no open raster
NoHandle == 0

\* generate_tiles_for_zoom up to the end of the submit loop
DispatchZoom ==
    /\ pc = "zoom_loop"
    /\ zi <= Len(zoom_levels)
    /\ CurrentZoom >= 0
    /\ submitted' = SubmitOrder(geotiff, CurrentZoom)
    /\ tasks' = [i \in 1..Len(submitted') |-> "queued"]
    /\ handles' = [i \in 1..Len(submitted') |-> NoHandle]
    /\ opened' = opened + 1
    /\ dispatched' = dispatched + Len(submitted')
    /\ pc' = "batch"
    /\ UNCHANGED << genVars, pipeVars, svcVars, upVars, color_breaks, dynamic_thresholds, data_min,
                    data_max, zi, total_generated, finished, caught, files,
                    metadata, result, exc, arg, out, out2 >>

\* generate_tiles_for_zoom with a negative zoom: 2**zoom - 1 is a float and
\* range() raises TypeError before anything is submitted
DispatchNegativeZoom ==
    /\ pc = "zoom_loop"
    /\ zi <= Len(zoom_levels)
    /\ CurrentZoom < 0
    /\ pc' = "raised"
    /\ exc' = "TypeError"
    /\ UNCHANGED << genVars, pipeVars, svcVars, upVars, handles, opened, color_breaks, dynamic_thresholds, data_min,
                    data_max, zi, submitted, tasks, total_generated,
                    dispatched, finished, caught, files, metadata, result,
                    arg, out, out2 >>

\* the as_completed loop without its `if result:` test
TilesGeneratedCountAll(futures) == Cardinality(DOMAIN futures)

\* tiles_generated at the end of the as_completed loop
TilesGenerated(futures) ==
    Cardinality({i \in DOMAIN futures : futures[i] = "path"})

Running == { i \in DOMAIN tasks : tasks[i] = "running" }
Queued == { i \in DOMAIN tasks : tasks[i] = "queued" }

\* a pool that starts a thread for every future
PoolUnbounded(running) == TRUE

\* ThreadPoolExecutor(max_workers=4): a worker is idle or can be created
PoolHasWorker(running) == Cardinality(running) < MaxWorkers

\* the `with` block left as soon as one future has a result
AnyDone(futures) ==
    \E i \in DOMAIN futures : futures[i] \in {"path", "none", "raised"}

\* the end of the `with ThreadPoolExecutor` block, shutdown(wait=True):
\* every future has finished
AllDone(futures) ==
    \A i \in DOMAIN futures : futures[i] \in {"path", "none", "raised"}

\* a tile path without its zoom directory
TilePathWithoutZoom(zoom, x, y) == <<0, x, y>>

\* tile_path of generate_tile: {layer}/{zoom}/{x}/{y}.png
tile_path(zoom, x, y) == <<zoom, x, y>>

\* a free worker of the pool takes the oldest queued future; generate_tile
\* opens the raster for itself
TaskStart ==
    /\ pc = "batch"
    /\ Queued # {}
    /\ PoolHasWorker(Running)
    /\ LET i == CHOOSE j \in Queued : \A k \in Queued : j <= k
       IN  /\ tasks' = [tasks EXCEPT ![i] = "running"]
           /\ handles' = [handles EXCEPT ![i] = opened + 1]
    /\ opened' = opened + 1
    /\ UNCHANGED << pc, genVars, pipeVars, svcVars, upVars, color_breaks, dynamic_thresholds, data_min,
                    data_max, zi, submitted, total_generated, dispatched,
                    finished, caught, files, metadata, result, exc,
                    arg, out, out2 >>

\* one worker runs generate_tile(zoom, x, y) to its end
TaskFinish(i) ==
    /\ pc = "batch"
    /\ tasks[i] = "running"
    /\ \E r \in { GenerateTile(
                      ExtractTileData(geotiff, CurrentZoom,
                                      submitted[i][1], submitted[i][2]),
                      color_breaks, colors,
                      FaultFor(CurrentZoom, submitted[i][1],
                               submitted[i][2])) } :
       LET path == tile_path(CurrentZoom, submitted[i][1], submitted[i][2])
       IN  /\ tasks' = [tasks EXCEPT ![i] =
                          CASE r.outcome = "path" -> "path"
                            [] r.outcome = "escaped" -> "raised"
                            [] OTHER -> "none"]
           /\ files' = IF r.outcome = "path"
                       THEN [p \in DOMAIN files \cup {path} |->
                               IF p = path THEN r.image ELSE files[p]]
                       ELSE files
           /\ caught' = IF r.outcome \in {"caught", "escaped"}
                        THEN caught \cup {path} ELSE caught
    /\ finished' = finished + 1
    /\ handles' = [handles EXCEPT ![i] = NoHandle]
    /\ UNCHANGED << pc, genVars, pipeVars, svcVars, upVars, opened, color_breaks, dynamic_thresholds, data_min,
                    data_max, zi, submitted, total_generated, dispatched,
                    metadata, result, exc, arg, out, out2 >>

\* the end of a zoom level that also dumps metadata.json, before the
\* remaining zoom levels have run
CollectZoomWritingMetadata ==
    /\ pc = "batch"
    /\ AllDone(tasks)
    /\ total_generated' = total_generated + TilesGenerated(tasks)
    /\ zi' = zi + 1
    /\ submitted' = <<>>
    /\ tasks' = <<>>
    /\ handles' = <<>>
    /\ pc' = "zoom_loop"
    /\ metadata' = WriteMetadata(layer_name, data_min, data_max,
                                 dynamic_thresholds, color_breaks,
                                 use_legacy_thresholds)
    /\ UNCHANGED << genVars, pipeVars, svcVars, upVars, opened, color_breaks, dynamic_thresholds, data_min,
                    data_max, dispatched, finished, caught, files, result,
                    exc, arg, out, out2 >>

\* the as_completed loop and the end of the `with` block: every future has
\* finished; future.result() re-raises what a task raised
CollectZoom ==
    /\ pc = "batch"
    /\ AllDone(tasks)
    /\ IF \E i \in DOMAIN tasks : tasks[i] = "raised"
       THEN /\ pc' = "raised"
            /\ exc' = "TaskError"
            /\ UNCHANGED << zi, total_generated, submitted, tasks, handles >>
       ELSE /\ total_generated' = total_generated + TilesGenerated(tasks)
            /\ zi' = zi + 1
            /\ submitted' = <<>>
            /\ tasks' = <<>>
            /\ handles' = <<>>
            /\ pc' = "zoom_loop"
            /\ exc' = exc
    /\ UNCHANGED << genVars, pipeVars, svcVars, upVars, opened, color_breaks, dynamic_thresholds, data_min,
                    data_max, dispatched, finished, caught, files, metadata,
                    result, arg, out, out2 >>

\* after the last zoom level: generate_tile_stats (read-only),
\* _write_metadata, return total_generated
FinishRun ==
    /\ pc = "zoom_loop"
    /\ zi > Len(zoom_levels)
    /\ metadata' = WriteMetadata(layer_name, data_min, data_max,
                                 dynamic_thresholds, color_breaks,
                                 use_legacy_thresholds)
    /\ result' = total_generated
    /\ pc' = "done"
    /\ UNCHANGED << genVars, pipeVars, svcVars, upVars, handles, opened, color_breaks, dynamic_thresholds, data_min,
                    data_max, zi, submitted, tasks, total_generated,
                    dispatched, finished, caught, files, exc,
                    arg, out, out2 >>

Next ==
    \/ MissingSource
    \/ ReadAndCalibrate
    \/ DispatchZoom
    \/ DispatchNegativeZoom
    \/ TaskStart
    \/ \E i \in DOMAIN tasks : TaskFinish(i)
    \/ CollectZoom
    \/ FinishRun

Spec == Init /\ [][Next]_vars


\* ------------------------------------------------------------------------
\* The colour ramp engine on its own: one sample through
\* apply_pm25_colormap under every ramp a generator can hold
\* ------------------------------------------------------------------------
ProbeStep == 1370
ProbeCount == 120

ProbeValues(breaks) ==
    { breaks[i] + d : i \in 1..Len(breaks), d \in {-1, 0, 1} }
      \cup { k * ProbeStep : k \in (-2)..ProbeCount }
      \cup { NaN, PosInf }

AllLayers == LayerNames \cup { "other" }

\* no override; fewer thresholds than colours; not increasing; more
\* thresholds than a layer has colours
ColorOverrides ==
    { NoList, <<0, 10000, 20000>>, <<0, 20000, 10000, 30000, 25000>>,
      <<0, 10000, 20000, 30000, 40000, 50000, 60000>> }

DefaultRaster == [exists |-> TRUE, west |-> 0, east |-> 2 * Eighth,
                  north |-> 0, south |-> 2 * Eighth, value |-> 20000]

GenIdle ==
    /\ geotiff = DefaultRaster
    /\ zoom_levels = <<2>>
    /\ fault = NoFault

InitColor ==
    /\ layer_name \in AllLayers
    /\ use_legacy_thresholds = FALSE
    /\ thresholds_override \in ColorOverrides
    /\ color_breaks = InitColorBreaks(layer_name, NoList,
                                      thresholds_override, FALSE)
    /\ colors = InitColors(layer_name, NoList)
    /\ arg \in ProbeValues(color_breaks)
    /\ out = NoList
    /\ out2 = NoList
    /\ pc = "input"
    /\ GenIdle
    /\ RunFresh

ApplyColormap ==
    /\ pc = "input"
    /\ out' = ColorAt(arg, color_breaks, colors)
    /\ pc' = "coloured"
    /\ UNCHANGED << genVars, pipeVars, svcVars, upVars, runVars, color_breaks, dynamic_thresholds,
                    data_min, data_max, files, arg, out2 >>

SpecColor == InitColor /\ [][ApplyColormap]_vars

\* ------------------------------------------------------------------------
\* Gap filling on its own: every small array of missing and valid pixels
\* ------------------------------------------------------------------------
FillCols == 2
FillValues == { NaN, 0, 5000, 7000 }

GridsOf(rows, cols) == [1..rows -> [1..cols -> FillValues]]

\* 3 x 3 arrays with missing corners: the centre has all four neighbours
CrossGrids ==
    { g \in [1..3 -> [1..3 -> FillValues \cup {9000}]] :
         \A r \in {1, 3}, c \in {1, 3} : g[r][c] = 0 }

InitFill ==
    /\ arg \in GridsOf(3, FillCols) \cup CrossGrids
    /\ out = NoList
    /\ out2 = NoList
    /\ pc = "input"
    /\ layer_name = "pm25"
    /\ use_legacy_thresholds = TRUE
    /\ thresholds_override = NoList
    /\ color_breaks = LayerBreaks("pm25")
    /\ colors = LayerColors("pm25")
    /\ GenIdle
    /\ RunFresh

ApplyFill ==
    /\ pc = "input"
    /\ out' = fill_missing_with_neighbor_mean(arg)
    /\ pc' = "filled"
    /\ UNCHANGED << genVars, pipeVars, svcVars, upVars, runVars, color_breaks, dynamic_thresholds,
                    data_min, data_max, files, arg, out2 >>

ApplyFillAgain ==
    /\ pc = "filled"
    /\ out2' = fill_missing_with_neighbor_mean(out)
    /\ pc' = "refilled"
    /\ UNCHANGED << genVars, pipeVars, svcVars, upVars, runVars, color_breaks, dynamic_thresholds,
                    data_min, data_max, files, arg, out >>

NextFill == ApplyFill \/ ApplyFillAgain

SpecFill == InitFill /\ [][NextFill]_vars

\* ------------------------------------------------------------------------
\* One tile through generate_tile: windows with a run of NaN pixels, then a
\* run of zero pixels, then pixels of one value (row-major)
\* ------------------------------------------------------------------------
CoverSide == 8
CoverValues == { 20000, -1000 }

CoverWindow(nans, zeros, v) ==
    [r \in 1..CoverSide |->
       [c \in 1..CoverSide |->
          LET n == (r - 1) * CoverSide + c
          IN  IF n <= nans THEN NaN
              ELSE IF n <= nans + zeros THEN 0
              ELSE v]]

CoverWindows ==
    { CoverWindow(k, z, v) :
        k \in 0..(CoverSide * CoverSide),
        z \in {0, 1, 2, CoverSide, CoverSide * CoverSide},
        v \in CoverValues }

TileFaults == { NoFault,
                [kind |-> "read", tile |-> <<0, 0, 0>>],
                [kind |-> "write", tile |-> <<0, 0, 0>>] }

InitTile ==
    /\ arg \in CoverWindows
    /\ fault \in TileFaults
    /\ out = NoList
    /\ out2 = NoList
    /\ pc = "input"
    /\ layer_name = "pm25"
    /\ use_legacy_thresholds = TRUE
    /\ thresholds_override = NoList
    /\ color_breaks = LayerBreaks("pm25")
    /\ colors = LayerColors("pm25")
    /\ geotiff = DefaultRaster
    /\ zoom_levels = <<0>>
    /\ RunFresh

\* generate_tile(0, 0, 0) on a raster whose window for that tile is arg
GenerateTileCall ==
    /\ pc = "input"
    /\ \E r \in { GenerateTile(arg, color_breaks, colors,
                               FaultFor(0, 0, 0)) } :
           /\ out' = r
           /\ files' = IF r.outcome = "path"
                       THEN [p \in {<<0, 0, 0>>} |-> r.image] ELSE files
    /\ pc' = "tiled"
    /\ UNCHANGED << genVars, pipeVars, svcVars, upVars, runVars, color_breaks, dynamic_thresholds,
                    data_min, data_max, arg, out2 >>

SpecTile == InitTile /\ [][GenerateTileCall]_vars

\* ------------------------------------------------------------------------
\* Construction and calibration on their own
\* ------------------------------------------------------------------------
ManyClasses == 1202

\* a colors argument with n entries
ColorsOf(n) == [i \in 1..n |-> hex_to_rgba(i % 256, 0, 0)]

CalibColors == { NoList, ColorsOf(2), ColorsOf(3), ColorsOf(ManyClasses) }

\* no override; increasing; with a repeated threshold; decreasing
CalibOverrides ==
    { NoList, <<0, 10000, 20000, 30000, 40000>>, <<0, 5000, 5000, 9000, 12000>>,
      <<10000, 3000>> }

\* non-finite, negative, zero, 0.01, 0.5, 9.99, 10.0, 42.3, 100.01, 1000.0,
\* 1000.01, 1234.56
DataMaxValues ==
    { NaN, PosInf, -5000, 0, 10, 500, 9990, 10000, 42300, 100010, 1000000,
      1000010, 1234560 }

InitCalib ==
    /\ layer_name \in AllLayers
    /\ use_legacy_thresholds \in BOOLEAN
    /\ thresholds_override \in CalibOverrides
    /\ \E colors_arg \in CalibColors :
          colors = InitColors(layer_name, colors_arg)
    /\ color_breaks = InitColorBreaks(layer_name, NoList,
                                      thresholds_override,
                                      use_legacy_thresholds)
    /\ \E v \in DataMaxValues : geotiff = [DefaultRaster EXCEPT !.value = v]
    /\ zoom_levels = <<2>>
    /\ fault = NoFault
    /\ Constructed
    /\ PureIdle

SpecCalib == InitCalib /\ [][ReadAndCalibrate]_vars

\* ------------------------------------------------------------------------
\* Whole runs over one zoom level, for every way of choosing the thresholds:
\* layer, legacy flag, override and explicit color_breaks argument, with
\* thresholds of two and of three decimals
\* ------------------------------------------------------------------------
\* no override; thresholds of two decimals; 0, 0.125, 2.675, 12.005, 150
MetaOverrides ==
    { NoList, <<0, 10000, 20000, 30000, 40000>>,
      <<0, 125, 2675, 12005, 150000>> }

\* no color_breaks argument; 0, 5.004, 9.996, 20, 40
MetaBreakArgs == { NoList, <<0, 5004, 9996, 20000, 40000>> }

\* 20.0 and 2.675
MetaValues == { 20000, 2675 }

InitMeta ==
    /\ \E ex \in BOOLEAN, v \in MetaValues :
          geotiff = [DefaultRaster EXCEPT !.exists = ex, !.value = v]
    /\ layer_name \in AllLayers
    /\ zoom_levels \in { <<1>>, <<-1>> }
    /\ use_legacy_thresholds \in BOOLEAN
    /\ thresholds_override \in MetaOverrides
    /\ fault = NoFault
    /\ \E color_breaks_arg \in MetaBreakArgs :
          color_breaks = InitColorBreaks(layer_name, color_breaks_arg,
                                         thresholds_override,
                                         use_legacy_thresholds)
    /\ colors = InitColors(layer_name, NoList)
    /\ Constructed
    /\ PureIdle

SpecMeta == InitMeta /\ [][Next]_vars

\* ------------------------------------------------------------------------
\* upsample_layer (upsample_zoom11_to_12.py)
\*
\* A tile file is a record: its pixels and how the file is encoded.  "pil"
\* is a PNG written by Image.save with default options (generate_tile and
\* _upsample_step write such files), "foreign" a PNG written otherwise,
\* "unreadable" a file Image.open rejects, "truncated" a PNG whose header
\* opens and whose pixel data cannot be decoded.
\* ------------------------------------------------------------------------
ImageA == [pixels |-> "a", file |-> "pil"]
ImageB == [pixels |-> "b", file |-> "foreign"]
Unreadable == [pixels |-> "none", file |-> "unreadable"]
Truncated == [pixels |-> "c", file |-> "truncated"]

\* Image.open(y_file) succeeds
Opens(tile) == tile.file # "unreadable"

\* the file img.save(out_dir / f"{cy}.png") writes
Saved(img) == [pixels |-> img.pixels, file |-> "pil"]

\* the tiles {x}/{y}.png of the directory of zoom z
TilesAt(tiles, z) == { p \in DOMAIN tiles : p[1] = z }

\* only the children (2x, 2y) and (2x + 1, 2y)
ChildrenOfOneRow(p) ==
    { <<p[1] + 1, 2 * p[2] + dx, 2 * p[3]>> : dx \in {0, 1} }

\* (cx, cy) of the loops over dx and dy
Children(p) ==
    { <<p[1] + 1, 2 * p[2] + dx[1], 2 * p[3] + dx[2]>> :
         dx \in {0, 1} \X {0, 1} }

ParentOf(q) == <<q[1] - 1, q[2] \div 2, q[3] \div 2>>

\* the tree after the body of `for y_file` has run for the tiles `parents`
Replicate(tiles, parents) ==
    LET kids == UNION { Children(p) : p \in parents }
    IN  [q \in DOMAIN tiles \cup kids |->
           IF q \in kids THEN Saved(tiles[ParentOf(q)]) ELSE tiles[q]]

\* a step that saves, and counts, only the children that do not exist yet
UpsampleStepNewOnly(tiles, z) ==
    LET parents == { p \in TilesAt(tiles, z) : Opens(tiles[p]) }
        kids == UNION { Children(p) : p \in parents } \ DOMAIN tiles
    IN  [tiles |-> [q \in DOMAIN tiles \cup kids |->
                      IF q \in kids THEN Saved(tiles[ParentOf(q)])
                      ELSE tiles[q]],
         count |-> Cardinality(kids)]

\* _upsample_step(src_dir, dst_dir) for src_dir of zoom z when every tile
\* that opens can be decoded: the tree it leaves and the count it returns
UpsampleStep(tiles, z) ==
    LET parents == { p \in TilesAt(tiles, z) : Opens(tiles[p]) }
    IN  [tiles |-> Replicate(tiles, parents),
         count |-> 4 * Cardinality(parents)]

\* number of calls of upsample_layer that are followed
MaxCalls == 2

UpPositions == { <<0, 0, 0>>, <<1, 0, 0>>, <<1, 1, 1>>, <<2, 0, 0>>,
                 <<2, 3, 3>> }
UpContents == { ImageA, ImageB, Unreadable, Truncated }

\* the layer directory is missing, or holds any tiles at the positions
UpTrees ==
    { [exists |-> FALSE, tiles |-> <<>>] } \cup
    { [exists |-> TRUE, tiles |-> t] :
        t \in UNION { [S -> UpContents] : S \in SUBSET UpPositions } }

\* <<min_zoom, max_zoom>>
UpRanges == { <<0, 1>>, <<0, 2>>, <<1, 2>>, <<1, 1>>, <<2, 1>> }

InitUp ==
    /\ layer_dir \in UpTrees
    /\ \E r \in UpRanges : min_zoom = r[1] /\ max_zoom = r[2]
    /\ up_zoom = 0
    /\ up_total = 0
    /\ calls = 0
    /\ first_call = NoList
    /\ pc = "up_call"
    /\ SvcIdle
    /\ layer_name = "pm25"
    /\ use_legacy_thresholds = FALSE
    /\ thresholds_override = NoList
    /\ color_breaks = LayerBreaks("pm25")
    /\ colors = LayerColors("pm25")
    /\ GenIdle
    /\ GeneratorFresh
    /\ PipeIdle
    /\ PureIdle

\* what a call left and returned
Outcome == [layer_dir |-> layer_dir, total |-> up_total]

\* upsample_layer is called: the layer directory test and total = 0
UpsampleCall ==
    /\ pc \in {"up_call", "up_returned"}
    /\ calls < MaxCalls
    /\ calls' = calls + 1
    /\ up_total' = 0
    /\ IF ~layer_dir.exists
       THEN /\ pc' = "up_returned"
            /\ up_zoom' = up_zoom
            /\ first_call' = IF calls = 0
                              THEN [layer_dir |-> layer_dir, total |-> 0]
                              ELSE first_call
       ELSE /\ pc' = "up_loop"
            /\ up_zoom' = min_zoom
            /\ first_call' = first_call
    /\ UNCHANGED << genVars, pipeVars, svcVars, runVars, color_breaks, dynamic_thresholds,
                    data_min, data_max, files, arg, out, out2, layer_dir,
                    min_zoom, max_zoom >>

\* a truncated tile is among the tiles of zoom z
HasTruncated(tiles, z) ==
    \E p \in TilesAt(tiles, z) : tiles[p].file = "truncated"

\* one iteration of `for zoom in range(min_zoom, max_zoom)`
UpsampleZoom ==
    /\ pc = "up_loop"
    /\ up_zoom < max_zoom
    /\ ~HasTruncated(layer_dir.tiles, up_zoom)
    /\ IF TilesAt(layer_dir.tiles, up_zoom) = {}
       THEN UNCHANGED << layer_dir, up_total >>
       ELSE \E r \in { UpsampleStep(layer_dir.tiles, up_zoom) } :
               /\ layer_dir' = [layer_dir EXCEPT !.tiles = r.tiles]
               /\ up_total' = up_total + r.count
    /\ up_zoom' = up_zoom + 1
    /\ UNCHANGED << pc, genVars, pipeVars, svcVars, runVars, color_breaks, dynamic_thresholds,
                    data_min, data_max, files, arg, out, out2, min_zoom,
                    max_zoom, calls, first_call >>

\* an iteration that meets a truncated tile: img.save raises while decoding
\* it, after the tiles that iterdir() and glob() listed before it (any of
\* the others) have been replicated
UpsampleZoomRaises ==
    /\ pc = "up_loop"
    /\ up_zoom < max_zoom
    /\ HasTruncated(layer_dir.tiles, up_zoom)
    /\ \E before \in SUBSET { p \in TilesAt(layer_dir.tiles, up_zoom) :
                                 /\ Opens(layer_dir.tiles[p])
                                 /\ layer_dir.tiles[p].file # "truncated" } :
          layer_dir' = [layer_dir EXCEPT
                          !.tiles = Replicate(layer_dir.tiles, before)]
    /\ pc' = "raised"
    /\ exc' = "OSError"
    /\ UNCHANGED << genVars, pipeVars, svcVars, color_breaks, dynamic_thresholds, data_min,
                    data_max, zi, submitted, tasks, total_generated,
                    dispatched, finished, caught, files, metadata, result,
                    handles, opened, arg, out, out2, min_zoom, max_zoom, up_zoom,
                    up_total,
                    calls, first_call >>

\* the loop is over: return total
UpsampleReturn ==
    /\ pc = "up_loop"
    /\ up_zoom >= max_zoom
    /\ pc' = "up_returned"
    /\ first_call' = IF calls = 1 THEN Outcome ELSE first_call
    /\ UNCHANGED << genVars, pipeVars, svcVars, runVars, color_breaks, dynamic_thresholds,
                    data_min, data_max, files, arg, out, out2, layer_dir,
                    min_zoom, max_zoom, up_zoom, up_total, calls >>

NextUp ==
    \/ UpsampleCall
    \/ UpsampleZoom
    \/ UpsampleZoomRaises
    \/ UpsampleReturn

SpecUp == InitUp /\ [][NextUp]_vars

\* ------------------------------------------------------------------------
\* The longitude half of the tile math in IEEE-754 binary64
\*
\* A double is kept exactly, as a sign, an integer part and the binary
\* digits of its fraction: [neg, int, frac] is +-(int + 0.frac).  Latitude
\* stays on the projected axis of deg2num above (world units).
\* ------------------------------------------------------------------------
Zeros(n) == [i \in 1..n |-> 0]
Ones(n) == [i \in 1..n |-> 1]

\* digit i of a fraction, 0 beyond its end
BitAt(frac, i) == IF i <= Len(frac) THEN frac[i] ELSE 0

\* number of zeros before the first 1 (all of them when there is no 1)
LeadingZeros(frac) ==
    IF \A i \in 1..Len(frac) : frac[i] = 0 THEN Len(frac)
    ELSE (CHOOSE i \in 1..Len(frac) :
             frac[i] = 1 /\ \A j \in 1..(i - 1) : frac[j] = 0) - 1

\* position of the last 1, 0 when there is none
LastOne(frac) ==
    IF \A i \in 1..Len(frac) : frac[i] = 0 THEN 0
    ELSE CHOOSE i \in 1..Len(frac) :
            frac[i] = 1 /\ \A j \in (i + 1)..Len(frac) : frac[j] = 0

\* the fraction plus one unit of its last digit, and the carry out of it
Increment(frac) ==
    LET zeros == { i \in 1..Len(frac) : frac[i] = 0 }
        p == IF zeros = {} THEN 0
             ELSE CHOOSE i \in zeros : \A j \in zeros : j <= i
    IN  [carry |-> IF p = 0 THEN 1 ELSE 0,
         frac |-> [i \in 1..Len(frac) |->
                     IF i < p THEN frac[i] ELSE IF i = p THEN 1 ELSE 0]]

\* 1 - 0.frac for a fraction that is not zero
Complement(frac) ==
    [i \in 1..Len(frac) |->
       IF i < LastOne(frac) THEN 1 - frac[i] ELSE frac[i]]

\* number of significant binary digits of int + 0.frac
SigBits(int, frac) ==
    IF int > 0 THEN BitLen(int) + LastOne(frac)
    ELSE IF LastOne(frac) = 0 THEN 0
    ELSE LastOne(frac) - LeadingZeros(frac)

\* significant digits of a double
F64Digits == 53

\* int + 0.frac (+ something below the last digit when sticky) rounded to
\* the nearest double, ties to even
F64Round(int, frac, sticky) ==
    LET keep == IF int > 0 THEN F64Digits - BitLen(int)
                ELSE LeadingZeros(frac) + F64Digits
    IN  IF Len(frac) <= keep THEN [int |-> int, frac |-> frac]
        ELSE LET kept == SubSeq(frac, 1, keep)
                 rest == sticky \/ \E i \in (keep + 2)..Len(frac) : frac[i] = 1
                 odd == IF keep = 0 THEN int % 2 = 1 ELSE kept[keep] = 1
             IN  IF frac[keep + 1] = 1 /\ (rest \/ odd)
                 THEN LET inc == Increment(kept)
                      IN  [int |-> int + inc.carry, frac |-> inc.frac]
                 ELSE [int |-> int, frac |-> kept]

\* lon_deg + 180.0 for lon_deg >= -180
F64Plus180(lon) ==
    IF ~lon.neg THEN F64Round(lon.int + 180, lon.frac, FALSE)
    ELSE IF LastOne(lon.frac) = 0 THEN [int |-> 180 - lon.int, frac |-> <<>>]
    ELSE F64Round(179 - lon.int, Complement(lon.frac), FALSE)

RECURSIVE BitsValue(_)
BitsValue(bits) ==
    IF bits = <<>> THEN 0
    ELSE 2 * BitsValue(SubSeq(bits, 1, Len(bits) - 1)) + bits[Len(bits)]

\* the digits of a fraction are divided eight at a time
ChunkBits == 8

\* the value of the c-th group of digits of a fraction
ChunkValue(frac, c) ==
    BitsValue([j \in 1..ChunkBits |-> BitAt(frac, ChunkBits * (c - 1) + j)])

\* long division by 360 of the groups c..n of a fraction, given the
\* remainder so far: the quotient of each group and the last remainder
RECURSIVE LongDivide(_, _, _, _, _)
LongDivide(rem, frac, c, n, acc) ==
    IF c > n THEN [groups |-> acc, rem |-> rem]
    ELSE LET cur == rem * Pow2(ChunkBits) + ChunkValue(frac, c)
         IN  LongDivide(cur % 360, frac, c + 1, n, Append(acc, cur \div 360))

\* v / 360.0
F64Div360(v) ==
    LET n == (Len(v.frac) + F64Digits + 11) \div ChunkBits + 1
        q == LongDivide(v.int % 360, v.frac, 1, n, <<>>)
        digits == [i \in 1..(ChunkBits * n) |->
                     (q.groups[(i - 1) \div ChunkBits + 1]
                        \div Pow2(ChunkBits - 1 - ((i - 1) % ChunkBits))) % 2]
    IN  F64Round(v.int \div 360, digits, q.rem # 0)

\* int(v * n) for n = 2.0 ** zoom
IntOfScaled(v, zoom) ==
    v.int * Pow2(zoom) + BitsValue([i \in 1..zoom |-> BitAt(v.frac, i)])

\* the same, rounding to the nearest integer instead of truncating
XTileOfLonNearest(lon, zoom) ==
    IntOfScaled(F64Div360(F64Plus180(lon)), zoom)
      + BitAt(F64Div360(F64Plus180(lon)).frac, zoom + 1)

\* xtile of deg2num: int((lon_deg + 180.0) / 360.0 * n)
XTileOfLon(lon, zoom) ==
    IntOfScaled(F64Div360(F64Plus180(lon)), zoom)

\* lon_deg of num2deg: xtile / n * 360.0 - 180.0 (exact at these zooms)
LonOfXTile(xtile, zoom) ==
    LET num == 360 * xtile - 180 * Pow2(zoom)
        mag == IF num < 0 THEN -num ELSE num
        low == mag % Pow2(zoom)
    IN  [neg |-> num < 0,
         int |-> mag \div Pow2(zoom),
         frac |-> [i \in 1..zoom |-> (low \div Pow2(zoom - i)) % 2]]

\* magnitude + 2^-k and magnitude - 2^-k, for k beyond the last digit
AddBit(int, frac, k) ==
    [int |-> int,
     frac |-> [i \in 1..k |-> IF i = k THEN 1 ELSE BitAt(frac, i)]]

SubBit(int, frac, k) ==
    LET p == LastOne(frac)
    IN  [int |-> IF p = 0 THEN int - 1 ELSE int,
         frac |-> [i \in 1..k |->
                     IF i < p THEN frac[i] ELSE IF i = p THEN 0 ELSE 1]]

Signed(neg, mag) == [neg |-> neg, int |-> mag.int, frac |-> mag.frac]

\* edge + dir * 2^-k, dir = 1 (eastwards) or -1 (westwards)
Nudge(edge, k, dir) ==
    IF edge.int = 0 /\ LastOne(edge.frac) = 0
    THEN Signed(dir < 0, AddBit(0, <<>>, k))
    ELSE IF edge.neg = (dir < 0)
    THEN Signed(edge.neg, AddBit(edge.int, edge.frac, k))
    ELSE Signed(edge.neg, SubBit(edge.int, edge.frac, k))

FracLess(f, g) ==
    \E i \in 1..Max2(Len(f), Len(g)) :
       /\ BitAt(f, i) < BitAt(g, i)
       /\ \A j \in 1..(i - 1) : BitAt(f, j) = BitAt(g, j)

MagLess(a, b) ==
    a.int < b.int \/ (a.int = b.int /\ FracLess(a.frac, b.frac))

\* a < b
LonLess(a, b) ==
    IF a.neg /\ ~b.neg THEN TRUE
    ELSE IF ~a.neg /\ b.neg THEN FALSE
    ELSE IF a.neg THEN MagLess(b, a)
    ELSE MagLess(a, b)

\* 2^-MarginExp degrees: a distance from an edge far above the rounding
\* error of the computation
MarginExp == 23

\* the distances 2^-k from an edge that are tried
OffsetExps == {1, 10, MarginExp, 40, 45, 46, 60}

\* the doubles at these distances inside tile column x
LonPoints(x, zoom) ==
    { lon \in { Nudge(LonOfXTile(x, zoom), k, 1) : k \in OffsetExps } \cup
              { Nudge(LonOfXTile(x + 1, zoom), k, -1) : k \in OffsetExps } :
         SigBits(lon.int, lon.frac) <= F64Digits }

\* the projected latitudes strictly inside tile row y
LatPoints(y, zoom) ==
    { lat \in 0..World :
         /\ num2deg(0, y, zoom)[1] < lat
         /\ lat < num2deg(0, y + 1, zoom)[1] }

InitMath ==
    /\ \E zoom \in 0..FinestZoom :
         \E x \in 0..(Pow2(zoom) - 1), y \in 0..(Pow2(zoom) - 1) :
            \E lat \in LatPoints(y, zoom), lon \in LonPoints(x, zoom) :
               arg = [zoom |-> zoom, x |-> x, y |-> y, lat |-> lat,
                      lon |-> lon]
    /\ out = NoList
    /\ out2 = NoList
    /\ pc = "input"
    /\ layer_name = "pm25"
    /\ use_legacy_thresholds = FALSE
    /\ thresholds_override = NoList
    /\ color_breaks = LayerBreaks("pm25")
    /\ colors = LayerColors("pm25")
    /\ GenIdle
    /\ RunFresh

\* deg2num(lat, lon, zoom) on the point
LocatePoint ==
    /\ pc = "input"
    /\ out' = << XTileOfLon(arg.lon, arg.zoom),
                 deg2num(arg.lat, 0, arg.zoom)[2] >>
    /\ pc' = "located"
    /\ UNCHANGED << genVars, pipeVars, svcVars, upVars, runVars, color_breaks, dynamic_thresholds,
                    data_min, data_max, files, arg, out2 >>

SpecMath == InitMath /\ [][LocatePoint]_vars

\* ------------------------------------------------------------------------
\* Service lifecycle (scripts/api_service.py, scripts/tiles_service.py)
\*
\* One invocation of `up` or `down` is one step.  procs gives, for every
\* pid, the command line of the live process with that pid: "uvicorn" (the
\* server as `up` starts it), "dummy" (the sleeping process `up` starts in
\* test mode), "foreign" (a process the scripts did not start), or "free"
\* when no process has the pid.  The environment variables of an invocation
\* (test mode, force kill) and whether `ps` can be run are its inputs.
\* ------------------------------------------------------------------------

\* is_process_running that never finds the process
IsProcessRunningNever(pid, table) == FALSE

\* is_process_running(pid)
is_process_running(pid, table) == pid # NoPid /\ table[pid] # "free"

\* the command line that contains expected_cmd_substrings
ExpectedCommand(meta) ==
    IF meta = NoMeta THEN "uvicorn"
    ELSE IF meta.test THEN "dummy" ELSE "uvicorn"

\* verify_process_ownership(pid)
verify_process_ownership(pid, table, meta, ps_works) ==
    IF ~is_process_running(pid, table) THEN FALSE
    ELSE IF ~ps_works THEN meta # NoMeta /\ meta.pid = pid
    ELSE table[pid] = ExpectedCommand(meta)

\* meta_indicates_test_mode(meta)
meta_indicates_test_mode(meta) == meta # NoMeta /\ meta.test

\* a cleanup that leaves the PID file in place
CleanupKeepsPidFile(pidf, meta) == [pid_file |-> pidf, meta_file |-> NoMeta]

\* the state files after cleanup_state, given what they held
cleanup_state(pidf, meta) == [pid_file |-> NoPid, meta_file |-> NoMeta]

Finish(code, message) == exit_code' = code /\ report' = message

\* the state files become `state`
Files(state) == pid_file' = state.pid_file /\ meta_file' = state.meta_file

\* the part of start_api / start_tiles after the check of the PID file
StartProcess(test_mode) ==
    LET cleaned == IF pid_file # NoPid
                   THEN cleanup_state(pid_file, meta_file)
                   ELSE [pid_file |-> pid_file, meta_file |-> meta_file]
        started(p) == [pid_file |-> p,
                       meta_file |-> [pid |-> p, test |-> test_mode]]
    IN  \* uvicorn is not importable or the port cannot be bound
        \/ /\ svc_kind = "tiles" /\ ~test_mode
           /\ Files(cleaned)
           /\ Finish(1, "error")
           /\ UNCHANGED procs
        \* Popen raises
        \/ /\ Files(cleanup_state(cleaned.pid_file, cleaned.meta_file))
           /\ Finish(1, "error")
           /\ UNCHANGED procs
        \* the process is started and is running after the wait
        \/ \E p \in Pids :
              /\ procs[p] = "free"
              /\ procs' = [procs EXCEPT
                             ![p] = IF test_mode THEN "dummy" ELSE "uvicorn"]
              /\ Files(started(p))
              /\ Finish(0, "started")
        \* the process exits during the wait and the script sees it
        \/ /\ \E p \in Pids : procs[p] = "free"
           /\ Files(cleanup_state(cleaned.pid_file, cleaned.meta_file))
           /\ Finish(1, "error")
           /\ UNCHANGED procs
        \* the process exits during the wait, and kill(pid, 0) still
        \* succeeds on the unreaped child (start_api does not poll it)
        \/ /\ svc_kind = "api"
           /\ \E p \in Pids : procs[p] = "free" /\ Files(started(p))
           /\ Finish(0, "started")
           /\ UNCHANGED procs

\* the second condition of `up`: the process runs and is not verified
RefusesForeign(pid, table, meta, ps_works) == is_process_running(pid, table) /\ ~verify_process_ownership(pid, table, meta, ps_works)

\* `up`: start_api / start_tiles
Up ==
    /\ pc = "shell"
    /\ command' = "up"
    /\ \E test_mode \in BOOLEAN, ps_works \in BOOLEAN :
          /\ svc_env' = Env(test_mode, FALSE, ps_works)
          /\ IF /\ is_process_running(pid_file, procs)
                /\ verify_process_ownership(pid_file, procs, meta_file,
                                            ps_works)
             THEN /\ IF /\ svc_kind = "tiles" /\ ~test_mode
                        /\ meta_indicates_test_mode(meta_file)
                     THEN Finish(1, "test_mode_conflict")
                     ELSE Finish(0, "already_running")
                  /\ UNCHANGED << pid_file, meta_file, procs >>
             ELSE IF RefusesForeign(pid_file, procs, meta_file, ps_works)
             THEN /\ Finish(1, "error")
                  /\ UNCHANGED << pid_file, meta_file, procs >>
             ELSE StartProcess(test_mode)
    /\ UNCHANGED << pc, genVars, pipeVars, upVars, runVars, color_breaks,
                    dynamic_thresholds, data_min, data_max, files, arg, out,
                    out2, svc_kind, invocations >>

\* a guard of `down` that stops whatever the PID file names
RefusesNever(pid, table, meta, ps_works, force_kill) == FALSE

\* the guard of `down`: the process is not verified and FORCE_KILL is unset
RefusesToStop(pid, table, meta, ps_works, force_kill) == ~verify_process_ownership(pid, table, meta, ps_works) /\ ~force_kill

\* `down`: stop_api / stop_tiles
Down ==
    /\ pc = "shell"
    /\ command' = "down"
    /\ \E force_kill \in BOOLEAN, ps_works \in BOOLEAN, permitted \in BOOLEAN :
          /\ svc_env' = Env(FALSE, force_kill, ps_works)
          /\ IF pid_file = NoPid
             THEN /\ Finish(0, "not_running")
                  /\ UNCHANGED << pid_file, meta_file, procs >>
             ELSE IF ~is_process_running(pid_file, procs)
             THEN /\ Files(cleanup_state(pid_file, meta_file))
                  /\ Finish(0, "not_running")
                  /\ UNCHANGED procs
             ELSE IF RefusesToStop(pid_file, procs, meta_file, ps_works,
                                   force_kill)
             THEN /\ Finish(1, "error")
                  /\ UNCHANGED << pid_file, meta_file, procs >>
             ELSE IF procs[pid_file] = "foreign" /\ ~permitted
             THEN \* os.kill raises PermissionError
                  /\ Finish(1, "error")
                  /\ UNCHANGED << pid_file, meta_file, procs >>
             ELSE \* SIGTERM, and SIGKILL after five seconds
                  /\ procs' = [procs EXCEPT ![pid_file] = "free"]
                  /\ Files(cleanup_state(pid_file, meta_file))
                  /\ Finish(0, "stopped")
    /\ UNCHANGED << pc, genVars, pipeVars, upVars, runVars, color_breaks,
                    dynamic_thresholds, data_min, data_max, files, arg, out,
                    out2, svc_kind, invocations >>

\* a process exits on its own
ProcessExits ==
    /\ pc = "shell"
    /\ \E p \in Pids :
          /\ procs[p] # "free"
          /\ procs' = [procs EXCEPT ![p] = "free"]
    /\ command' = "none"
    /\ UNCHANGED << pc, genVars, pipeVars, upVars, runVars, color_breaks,
                    dynamic_thresholds, data_min, data_max, files, arg, out,
                    out2, svc_kind, pid_file, meta_file, exit_code, report,
                    svc_env, invocations >>

\* the system gives a pid to a process the scripts did not start
ForeignStarts ==
    /\ pc = "shell"
    /\ \E p \in Pids :
          /\ procs[p] = "free"
          /\ procs' = [procs EXCEPT ![p] = "foreign"]
    /\ command' = "none"
    /\ UNCHANGED << pc, genVars, pipeVars, upVars, runVars, color_breaks,
                    dynamic_thresholds, data_min, data_max, files, arg, out,
                    out2, svc_kind, pid_file, meta_file, exit_code, report,
                    svc_env, invocations >>

InitSvc ==
    /\ svc_kind \in {"api", "tiles"}
    /\ svc_env = PlainEnv
    /\ invocations = <<>>
    /\ pid_file = NoPid
    /\ meta_file = NoMeta
    /\ procs = [p \in Pids |-> "free"]
    /\ command = "none"
    /\ exit_code = 0
    /\ report = "none"
    /\ pc = "shell"
    /\ layer_name = "pm25"
    /\ use_legacy_thresholds = FALSE
    /\ thresholds_override = NoList
    /\ color_breaks = LayerBreaks("pm25")
    /\ colors = LayerColors("pm25")
    /\ GenIdle
    /\ UpIdle
    /\ GeneratorFresh
    /\ PipeIdle
    /\ PureIdle

NextSvc ==
    \/ Up
    \/ Down
    \/ ProcessExits
    \/ ForeignStarts

SpecSvc == InitSvc /\ [][NextSvc]_vars

\* ------------------------------------------------------------------------
\* Two invocations of the service script on one state directory
\* (scripts/api_service.py, scripts/tiles_service.py)
\*
\* Each invocation is a process of its own; a step is one access to the
\* state files or to the process table.  invocations[i] holds the command
\* of invocation i, its test mode, its position, the pid it read from the
\* PID file (existing_pid of `up`, pid of `down`), the pid of the process
\* it started and its exit status.  A started process keeps running
\* unless it is signalled or, outside test mode, fails to start.
\* ------------------------------------------------------------------------

\* the two invocations on the state directory
Invocations == {1, 2}

\* an invocation that has not read anything yet
Invocation(cmd, test_mode) == [cmd |-> cmd, test_mode |-> test_mode, at |-> "start", existing_pid |-> NoPid, child |-> NoPid, rc |-> Unset]

\* invocation i is `cmd` and stands at `at`
At(i, cmd, at) == pc = "race" /\ invocations[i].cmd = cmd /\ invocations[i].at = at

\* invocation i moves on to `at`
Goto(i, at) == invocations' = [invocations EXCEPT ![i].at = at]

\* invocation i returns `rc`
Return(i, rc) == invocations' = [invocations EXCEPT ![i].at = "done", ![i].rc = rc]

\* what a race step leaves alone
RaceFrame ==
    UNCHANGED << pc, genVars, pipeVars, upVars, runVars, color_breaks,
                 dynamic_thresholds, data_min, data_max, files, arg, out,
                 out2, svc_kind, command, exit_code, report, svc_env >>

\* start_api l.186: existing_pid = get_pid_from_file()
UpRead(i) ==
    /\ At(i, "up", "start")
    /\ invocations' = [invocations EXCEPT
                         ![i].existing_pid = pid_file,
                         ![i].at = IF pid_file = NoPid THEN "popen"
                                   ELSE "check_owned"]
    /\ UNCHANGED << pid_file, meta_file, procs >>
    /\ RaceFrame

\* start_api l.188-197: the process is running and verified
UpCheckOwned(i) ==
    /\ At(i, "up", "check_owned")
    /\ \E ps_works \in BOOLEAN :
          LET pid == invocations[i].existing_pid
          IN  IF /\ is_process_running(pid, procs)
                 /\ verify_process_ownership(pid, procs, meta_file, ps_works)
              THEN IF /\ svc_kind = "tiles" /\ ~invocations[i].test_mode
                      /\ meta_indicates_test_mode(meta_file)
                   THEN Return(i, 1)
                   ELSE Return(i, 0)
              ELSE Goto(i, "check_foreign")
    /\ UNCHANGED << pid_file, meta_file, procs >>
    /\ RaceFrame

\* start_api l.199-204: the process is running and not verified
UpCheckForeign(i) ==
    /\ At(i, "up", "check_foreign")
    /\ \E ps_works \in BOOLEAN :
          IF RefusesForeign(invocations[i].existing_pid, procs, meta_file,
                            ps_works)
          THEN Return(i, 1)
          ELSE Goto(i, "cleanup")
    /\ UNCHANGED << pid_file, meta_file, procs >>
    /\ RaceFrame

\* start_api l.207: cleanup_state(existing_pid)
UpCleanup(i) ==
    /\ At(i, "up", "cleanup")
    /\ Files(cleanup_state(pid_file, meta_file))
    /\ Goto(i, "popen")
    /\ UNCHANGED procs
    /\ RaceFrame

\* start_api l.216-244: subprocess.Popen; start_tiles l.268-285 before it
UpPopen(i) ==
    /\ At(i, "up", "popen")
    /\ \* uvicorn is not importable or the port cannot be bound
       \/ /\ svc_kind = "tiles" /\ ~invocations[i].test_mode
          /\ Return(i, 1)
          /\ UNCHANGED << pid_file, meta_file, procs >>
       \* Popen raises: cleanup_state(existing_pid) in the handler
       \/ /\ Files(cleanup_state(pid_file, meta_file))
          /\ Return(i, 1)
          /\ UNCHANGED procs
       \/ \E p \in Pids :
             /\ procs[p] = "free"
             /\ procs' = [procs EXCEPT
                            ![p] = IF invocations[i].test_mode
                                   THEN "dummy" ELSE "uvicorn"]
             /\ invocations' = [invocations EXCEPT
                                  ![i].child = p, ![i].at = "write_pid"]
             /\ UNCHANGED << pid_file, meta_file >>
    /\ RaceFrame

\* start_api l.247: PID_FILE.write_text(str(process.pid))
UpWritePid(i) ==
    /\ At(i, "up", "write_pid")
    /\ pid_file' = invocations[i].child
    /\ Goto(i, "write_meta")
    /\ UNCHANGED << meta_file, procs >>
    /\ RaceFrame

\* start_api l.263-270: write_meta
UpWriteMeta(i) ==
    /\ At(i, "up", "write_meta")
    /\ meta_file' = [pid |-> invocations[i].child,
                     test |-> invocations[i].test_mode]
    /\ Goto(i, "verify")
    /\ UNCHANGED << pid_file, procs >>
    /\ RaceFrame

\* the server fails to start while its `up` waits for it
ChildExits(i) ==
    /\ At(i, "up", "verify")
    /\ ~invocations[i].test_mode
    /\ procs[invocations[i].child] # "free"
    /\ procs' = [procs EXCEPT ![invocations[i].child] = "free"]
    /\ UNCHANGED << invocations, pid_file, meta_file >>
    /\ RaceFrame

\* start_api l.273-290, start_tiles l.347-380: the check after the wait
UpVerify(i) ==
    /\ At(i, "up", "verify")
    /\ \/ /\ procs[invocations[i].child] # "free"
          /\ Return(i, 0)
          /\ UNCHANGED << pid_file, meta_file >>
       \* the script sees that its process is gone
       \/ /\ procs[invocations[i].child] = "free"
          /\ Files(cleanup_state(pid_file, meta_file))
          /\ Return(i, 1)
       \* kill(pid, 0) still succeeds on the unreaped child
       \/ /\ procs[invocations[i].child] = "free"
          /\ svc_kind = "api"
          /\ Return(i, 0)
          /\ UNCHANGED << pid_file, meta_file >>
    /\ UNCHANGED procs
    /\ RaceFrame

\* stop_api l.301-305: pid = get_pid_from_file()
DownRead(i) ==
    /\ At(i, "down", "start")
    /\ invocations' = [invocations EXCEPT
                         ![i].existing_pid = pid_file,
                         ![i].at = IF pid_file = NoPid THEN "done"
                                   ELSE "check_running",
                         ![i].rc = IF pid_file = NoPid THEN 0 ELSE Unset]
    /\ UNCHANGED << pid_file, meta_file, procs >>
    /\ RaceFrame

\* stop_api l.307-310: the stale PID
DownCheckRunning(i) ==
    /\ At(i, "down", "check_running")
    /\ IF is_process_running(invocations[i].existing_pid, procs)
       THEN Goto(i, "check_owned") /\ UNCHANGED << pid_file, meta_file >>
       ELSE Return(i, 0) /\ Files(cleanup_state(pid_file, meta_file))
    /\ UNCHANGED procs
    /\ RaceFrame

\* stop_api l.312-317: the ownership guard
DownCheckOwned(i) ==
    /\ At(i, "down", "check_owned")
    /\ \E force_kill \in BOOLEAN, ps_works \in BOOLEAN :
          IF RefusesToStop(invocations[i].existing_pid, procs, meta_file,
                           ps_works, force_kill)
          THEN Return(i, 1)
          ELSE Goto(i, "kill")
    /\ UNCHANGED << pid_file, meta_file, procs >>
    /\ RaceFrame

\* stop_api l.321-333: SIGTERM, the wait, SIGKILL
DownKill(i) ==
    /\ At(i, "down", "kill")
    /\ LET pid == invocations[i].existing_pid
       IN  \/ \* os.kill raises PermissionError
              /\ procs[pid] = "foreign"
              /\ Return(i, 1)
              /\ UNCHANGED procs
           \/ \* the process ends, or is gone already (ProcessLookupError)
              /\ procs' = [procs EXCEPT ![pid] = "free"]
              /\ Goto(i, "cleanup")
    /\ UNCHANGED << pid_file, meta_file >>
    /\ RaceFrame

\* stop_api l.336 and l.341: cleanup_state(pid)
DownCleanup(i) ==
    /\ At(i, "down", "cleanup")
    /\ Files(cleanup_state(pid_file, meta_file))
    /\ Return(i, 0)
    /\ UNCHANGED procs
    /\ RaceFrame

\* what pid 1 and the state files can be before the two invocations:
\* nothing, a running service with its files, the files of a service that
\* is gone (the pid free or taken by another process), a foreign process
StateDirectories ==
    { d \in [first : {"free", "uvicorn", "dummy", "foreign"}, recorded : BOOLEAN, test : BOOLEAN] :
         /\ d.first = "uvicorn" => d.recorded /\ ~d.test
         /\ d.first = "dummy" => d.recorded /\ d.test
         /\ ~d.recorded => ~d.test }

InitRace ==
    /\ svc_kind \in {"api", "tiles"}
    /\ \E d \in StateDirectories :
          /\ procs = [p \in Pids |-> IF p = 1 THEN d.first ELSE "free"]
          /\ pid_file = IF d.recorded THEN 1 ELSE NoPid
          /\ meta_file = IF d.recorded THEN [pid |-> 1, test |-> d.test]
                         ELSE NoMeta
    /\ \E second \in {"up", "down"}, t1 \in BOOLEAN, t2 \in BOOLEAN :
          invocations = << Invocation("up", t1), Invocation(second, t2) >>
    /\ command = "none"
    /\ exit_code = 0
    /\ report = "none"
    /\ svc_env = PlainEnv
    /\ pc = "race"
    /\ layer_name = "pm25"
    /\ use_legacy_thresholds = FALSE
    /\ thresholds_override = NoList
    /\ color_breaks = LayerBreaks("pm25")
    /\ colors = LayerColors("pm25")
    /\ GenIdle
    /\ UpIdle
    /\ GeneratorFresh
    /\ PipeIdle
    /\ PureIdle

NextRace ==
    \E i \in Invocations :
       \/ UpRead(i)
       \/ UpCheckOwned(i)
       \/ UpCheckForeign(i)
       \/ UpCleanup(i)
       \/ UpPopen(i)
       \/ UpWritePid(i)
       \/ UpWriteMeta(i)
       \/ ChildExits(i)
       \/ UpVerify(i)
       \/ DownRead(i)
       \/ DownCheckRunning(i)
       \/ DownCheckOwned(i)
       \/ DownKill(i)
       \/ DownCleanup(i)

SpecRace == InitRace /\ [][NextRace]_vars

\* ------------------------------------------------------------------------
\* The pipeline orchestrator (scripts/pipeline.py, pipeline_prereqs.py,
\* pipeline_locations.py).  The environment of the invocation is read
\* once: PIPELINE_TEST_MODE, PIPELINE_STRICT, PIPELINE_SIMULATE_FAILURES,
\* the credential files of the home directory and the Python modules that
\* fail to import.  A module that fails to import raises ImportError; the
\* log file can be opened.
\* ------------------------------------------------------------------------
\* LAYERS, by key, in execution order
LAYERS == << "pm25", "precipitation", "temperature", "humidity", "uv" >>

\* LAYER_ALIASES.get(layer, layer)
normalize_layer(layer) ==
    CASE layer = "precip" -> "precipitation"
      [] layer = "temp"   -> "temperature"
      [] OTHER            -> layer

\* the layers PREREQUISITES has an entry for
PrereqLayers == {"pm25", "uv", "precipitation", "temperature", "humidity"}

\* PREREQUISITES[layer][stage]["credentials"], over the three stages
Credentials(layer) ==
    CASE layer \in {"pm25", "uv"} ->
           { [file |-> "cdsapirc", required |-> TRUE] }
      [] layer = "precipitation" ->
           { [file |-> "netrc", required |-> FALSE] }
      [] OTHER -> {}

\* PREREQUISITES[layer][stage]["python_modules"], over the three stages
PythonModules(layer) ==
    CASE layer = "pm25" ->
           {"cdsapi", "cfgrib", "xarray", "rasterio", "PIL"}
      [] layer = "uv" ->
           {"cdsapi", "xarray", "rasterio", "PIL"}
      [] layer = "precipitation" ->
           {"requests", "xarray", "rasterio", "PIL"}
      [] OTHER ->
           {"httpx", "numpy", "rasterio", "PIL"}

\* check_credential: the credential file exists
check_credential(cred, env) ==
    IF cred.file = "cdsapirc" THEN env.cdsapirc ELSE env.netrc

\* validate_prerequisites(layer, "full"): the exit code
validate_prerequisites(layer, env) ==
    IF normalize_layer(layer) \notin PrereqLayers THEN 1
    ELSE IF env.test_mode THEN 0
    ELSE LET key == normalize_layer(layer)
             all_passed ==
                 /\ \A cred \in Credentials(key) :
                       check_credential(cred, env)
                          \/ ~(cred.required \/ env.strict)
                 /\ PythonModules(key) \cap env.missing = {}
         IN  IF all_passed THEN 0 ELSE 1

\* what the child process of run_layer does: Popen or the reading of its
\* output raises, or the child exits with rc
ChildOutcomes ==
    { [raised |-> FALSE, rc |-> 0], [raised |-> FALSE, rc |-> 2],
      [raised |-> FALSE, rc |-> -15], [raised |-> TRUE, rc |-> 0] }

\* run_layer: the exit code it returns
run_layer(layer, env, child) ==
    IF env.test_mode
    THEN IF layer \in { normalize_layer(k) : k \in env.simulate }
         THEN 1 ELSE 0
    ELSE IF child.raised THEN 1 ELSE child.rc

\* `for layer in LAYERS` ending at the first failed layer
LoopUntilFailure(res) ==
    /\ Len(res) < Len(LAYERS)
    /\ \A i \in 1..Len(res) : res[i].exit_code = 0

\* `for layer in LAYERS` has a layer left
LoopContinues(res) == Len(res) < Len(LAYERS)

\* failed_count of main
failed_count(res) == Cardinality({ i \in 1..Len(res) : res[i].exit_code # 0 })

TestEnvs ==
    { [test_mode |-> TRUE, strict |-> FALSE, simulate |-> sim,
       cdsapirc |-> FALSE, netrc |-> FALSE, missing |-> {}] :
         sim \in SUBSET {"pm25", "precip", "temp", "humidity", "uv"} }

RealEnvs ==
    { [test_mode |-> FALSE, strict |-> st, simulate |-> sim,
       cdsapirc |-> c, netrc |-> n, missing |-> mis] :
         st \in BOOLEAN, c \in BOOLEAN, n \in BOOLEAN,
         sim \in { {}, {"pm25"} },
         mis \in { {}, {"cfgrib"}, {"httpx"} } }

PipeEnvs == TestEnvs \cup RealEnvs

InitPipe ==
    /\ pc = "pipeline"
    /\ pipe_env \in PipeEnvs
    /\ results = <<>>
    /\ pipeline_rc = Unset
    /\ color_breaks = LayerBreaks("pm25")
    /\ layer_name = "pm25"
    /\ use_legacy_thresholds = FALSE
    /\ thresholds_override = NoList
    /\ colors = LayerColors("pm25")
    /\ GenIdle
    /\ UpIdle
    /\ SvcIdle
    /\ GeneratorFresh
    /\ PureIdle

\* one iteration of the loop of main: the prerequisite check, run_layer
\* when it passed, and the entry appended to results
PipelineLayer ==
    /\ pc = "pipeline"
    /\ LoopContinues(results)
    /\ \E child \in ChildOutcomes :
          LET layer == LAYERS[Len(results) + 1]
              prereq_rc == validate_prerequisites(layer, pipe_env)
              code == IF prereq_rc # 0 THEN prereq_rc
                      ELSE run_layer(layer, pipe_env, child)
          IN  results' = Append(results,
                                [key |-> layer, exit_code |-> code,
                                 ran |-> prereq_rc = 0])
    /\ UNCHANGED << pc, genVars, svcVars, upVars, runVars, color_breaks,
                    dynamic_thresholds, data_min, data_max, files, arg,
                    out, out2, pipe_env, pipeline_rc >>

\* the end of main: the summary and the exit code
PipelineExit ==
    /\ pc = "pipeline"
    /\ ~LoopContinues(results)
    /\ pc' = "pipeline_exit"
    /\ pipeline_rc' = IF failed_count(results) > 0 THEN 1 ELSE 0
    /\ UNCHANGED << genVars, svcVars, upVars, runVars, color_breaks,
                    dynamic_thresholds, data_min, data_max, files, arg,
                    out, out2, pipe_env, results >>

NextPipe ==
    \/ PipelineLayer
    \/ PipelineExit

SpecPipe == InitPipe /\ [][NextPipe]_vars

\* ------------------------------------------------------------------------
\* The tiles generate_tiles_for_zoom submits, for rasters anywhere on the
\* plane: inside the world square, across its edges and outside it
\* (longitudes beyond 180 degrees, latitudes beyond the Web Mercator
\* limit).  West is less than east and north is above south, as in the
\* bounds of a north-up raster.
\* ------------------------------------------------------------------------
\* how far outside the world square a raster edge may lie, in eighths
Overhang == 3

EdgePositions == { k * Eighth : k \in (0 - Overhang)..(8 + Overhang) }

RangeRasters ==
    { [exists |-> TRUE, west |-> w, east |-> e, north |-> n, south |-> s_,
       value |-> 20000] :
         w \in EdgePositions, e \in EdgePositions,
         n \in EdgePositions, s_ \in EdgePositions }

InitRange ==
    /\ geotiff \in { r \in RangeRasters :
                       r.west < r.east /\ r.north < r.south }
    /\ zoom_levels \in { <<z>> : z \in 0..FinestZoom }
    /\ fault = NoFault
    /\ arg = NoList
    /\ out = NoList
    /\ out2 = NoList
    /\ pc = "input"
    /\ layer_name = "pm25"
    /\ use_legacy_thresholds = FALSE
    /\ thresholds_override = NoList
    /\ color_breaks = LayerBreaks("pm25")
    /\ colors = LayerColors("pm25")
    /\ RunFresh

\* the submit loop of generate_tiles_for_zoom: out is the list of the
\* (x, y) submitted, in order
SubmitTiles ==
    /\ pc = "input"
    /\ out' = SubmitOrder(geotiff, zoom_levels[1])
    /\ pc' = "submitted"
    /\ UNCHANGED << genVars, pipeVars, svcVars, upVars, runVars, color_breaks,
                    dynamic_thresholds, data_min, data_max, files, arg,
                    out2 >>

SpecRange == InitRange /\ [][SubmitTiles]_vars

\* ------------------------------------------------------------------------
\* The colour scheme the tile server reports (tile_server.py)
\*
\* A hex colour "#rrggbb" is the sequence of its six digits.
\* ------------------------------------------------------------------------

\* hex_to_rgba(hex_color) with the default alpha, from the digits
HexColor(hex) ==
    << 16 * hex[1] + hex[2], 16 * hex[3] + hex[4], 16 * hex[5] + hex[6],
       DEFAULT_TILE_ALPHA >>

\* the layers that have an info endpoint
InfoLayers == {"pm25", "precipitation"}

\* tile_format.color_scheme.colors of /tiles/{layer}/info
InfoColors(layer) ==
    CASE layer = "pm25" ->
           << <<0, 0, 15, 15, 0, 0>>,
              <<15, 15, 15, 15, 0, 0>>,
              <<15, 15, 6, 6, 0, 0>>,
              <<15, 15, 0, 0, 0, 0>>,
              <<8, 0, 0, 0, 8, 0>> >>
      [] layer = "precipitation" ->
           << <<15, 15, 15, 15, 15, 15>>,
              <<8, 7, 12, 14, 14, 11>>,
              <<4, 1, 6, 9, 14, 1>>,
              <<0, 0, 0, 0, 15, 15>>,
              <<0, 0, 0, 0, 8, 11>> >>


\* ========================================================================
\* Properties
\* ========================================================================
Missing(v) == IsNaN(v) \/ v = 0

\* number of pixels that are neither NaN nor zero
CountNonMissing(data) ==
    Cardinality({rc \in Cells(data) : ~Missing(data[rc[1]][rc[2]])})

SizeOf(data) == Rows(data) * Cols(data)

TilePath == <<0, 0, 0>>

\* C1 (as claimed): generate_tile writes a PNG only if at least 2% of the
\* window's pixels are non-missing, missing meaning NaN or zero, and some
\* pixel of the image is not transparent; otherwise it writes nothing and
\* returns None without raising.
C1_CoverageCountsZeroAsMissing ==
    pc = "tiled" =>
      /\ files # <<>> =>
           /\ CountNonMissing(arg) * 100 >= 2 * SizeOf(arg)
           /\ ~FullyTransparent(files[TilePath])
      /\ files = <<>> => out.outcome \in {"skipped", "caught"}

\* C1 (amended): generate_tile writes a PNG only if at least 2% of the
\* window's pixels are not NaN (zero pixels count as valid) and some pixel of
\* the colourised image has alpha # 0; in every other case no file is
\* written, None is returned and nothing is raised.
C1_CoverageCountsNaNOnly ==
    pc = "tiled" =>
      /\ files # <<>> =>
           /\ CountValid(arg) * 100 >= 2 * SizeOf(arg)
           /\ \E rc \in Cells(arg) : files[TilePath][rc[1]][rc[2]][4] # 0
           /\ out.outcome = "path"
      /\ CountValid(arg) * 100 < 2 * SizeOf(arg) =>
           /\ files = <<>>
           /\ out.outcome \in {"skipped", "caught"}
      /\ out.outcome # "path" => files = <<>> /\ out.image = None
      /\ out.outcome # "escaped"

\* C1 witness: a window with some valid pixels, but fewer than 2%, was
\* rejected
C1_Witness ==
    /\ pc = "tiled"
    /\ CountValid(arg) > 0
    /\ CountValid(arg) * 100 < 2 * SizeOf(arg)
    /\ files = <<>>
    /\ out.outcome = "skipped"

\* the four adjacent pixels that exist
Adjacent(data, r, c) ==
    { rc \in Cells(data) :
        \/ rc[2] = c /\ (rc[1] = r - 1 \/ rc[1] = r + 1)
        \/ rc[1] = r /\ (rc[2] = c - 1 \/ rc[2] = c + 1) }

\* still missing after gap filling: missing, and so is every adjacent pixel
StillMissing(data, r, c) ==
    /\ Missing(data[r][c])
    /\ \A rc \in Adjacent(data, r, c) : Missing(data[rc[1]][rc[2]])

\* C2 (as claimed): in every written tile image, every pixel still missing
\* after gap filling is fully transparent.
C2_MissingStaysTransparent ==
    (pc = "tiled" /\ files # <<>>) =>
      \A rc \in Cells(arg) :
         StillMissing(arg, rc[1], rc[2]) =>
            files[TilePath][rc[1]][rc[2]][4] = 0

WellFormedRamp ==
    /\ Len(colors) = Len(color_breaks)
    /\ Len(color_breaks) >= 2
    /\ StrictlyIncreasing(color_breaks)

\* trunc((1 - t) * a + t * b), t = clamp((v - lower) / (upper - lower), 0, 1),
\* in exact arithmetic
ExactChannel(a, b, v, lower, upper) ==
    LET num == IF v < lower THEN 0
               ELSE IF v > upper THEN upper - lower ELSE v - lower
        den == upper - lower
    IN  (a * (den - num) + b * num) \div den

\* the segment the claim interpolates v in: the first one for a value below
\* the first threshold
SegmentOf(v, breaks) ==
    IF v < breaks[1] THEN 1
    ELSE CHOOSE i \in 1..(Len(breaks) - 1) : breaks[i] <= v /\ v < breaks[i + 1]

\* C3 (as claimed): a value below the first threshold or inside a segment is
\* coloured, channel by channel, trunc((1-t)*lower_colour + t*upper_colour);
\* so a value below the first threshold gets the first colour.
C3_InterpolatedEverywhereBelowLast ==
    (/\ pc = "coloured" /\ WellFormedRamp /\ IsFinite(arg)
     /\ arg < color_breaks[Len(color_breaks)]) =>
       LET i == SegmentOf(arg, color_breaks)
       IN  out = [ch \in 1..4 |->
                    ExactChannel(colors[i][ch], colors[i + 1][ch], arg,
                                 color_breaks[i], color_breaks[i + 1])]

\* C4: a value at or beyond the last threshold is given exactly the last
\* colour of the ramp.
C4_ClampToLastColor ==
    (/\ pc = "coloured" /\ ~IsNaN(arg)
     /\ arg >= color_breaks[Len(color_breaks)]) =>
       out = colors[Len(colors)]

\* C4 witness: the sample equal to the last threshold was coloured
C4_Witness ==
    /\ pc = "coloured"
    /\ arg = color_breaks[Len(color_breaks)]
    /\ out = colors[Len(colors)]

\* C5 (as claimed): the thresholds in force after calibration are strictly
\* increasing for every input.
C5_AlwaysStrictlyIncreasing ==
    pc = "zoom_loop" => StrictlyIncreasing(color_breaks)

\* C5 (amended): the thresholds in force after calibration are strictly
\* increasing for every data_max, every number of colours >= 2 and either
\* value of the legacy flag, provided that no caller-supplied override is in
\* force or that the override is itself strictly increasing.
C5_StrictlyIncreasingUnlessOverride ==
    (/\ pc = "zoom_loop"
     /\ Len(colors) >= 2
     /\ \/ thresholds_override = NoList
        \/ use_legacy_thresholds
        \/ StrictlyIncreasing(thresholds_override)) =>
       StrictlyIncreasing(color_breaks)

\* C5 witness: dynamic calibration for data_max = 0 in which the
\* strict-increase loop had to move a threshold
C5_Witness ==
    /\ pc = "zoom_loop"
    /\ thresholds_override = NoList
    /\ ~use_legacy_thresholds
    /\ data_max = 0
    /\ dynamic_thresholds = color_breaks
    /\ color_breaks # Linspace(round_up_to_nice_value(Scale), Len(colors))

\* C6 (as claimed): gap filling is idempotent.
C6_FillIdempotent ==
    pc = "refilled" => out2 = out

HasDataNeighbour(data, r, c) ==
    \E rc \in Adjacent(data, r, c) : data[rc[1]][rc[2]] # 0

\* C6 (amended): a second gap fill leaves every pixel that is non-zero after
\* the first one unchanged; it changes exactly the pixels that are still zero
\* after the first fill and have a non-zero adjacent pixel in its output.
C6_SecondFillOnlyGrows ==
    pc = "refilled" =>
      \A rc \in Cells(out) :
         LET r == rc[1]
             c == rc[2]
         IN  /\ out[r][c] # 0 => out2[r][c] = out[r][c]
             /\ (out[r][c] = 0 /\ ~HasDataNeighbour(out, r, c)) =>
                   out2[r][c] = 0
             /\ (out[r][c] = 0 /\ HasDataNeighbour(out, r, c)) =>
                   out2[r][c] # 0

\* C6 witness: the second fill changed the array although the first had
\* filled a missing pixel
C6_Witness ==
    /\ pc = "refilled"
    /\ out2 # out
    /\ \E rc \in Cells(arg) :
          /\ Missing(arg[rc[1]][rc[2]])
          /\ out[rc[1]][rc[2]] # 0
          /\ out2[rc[1]][rc[2]] = out[rc[1]][rc[2]]


\* the end-to-end scenario: layer pm25, no override, a raster of uniform
\* value 20.0 whose bounds are exactly those of tile (0, 0) of zoom 2, that
\* zoom alone configured, no failure injected
EndToEndScenario ==
    /\ layer_name = "pm25"
    /\ thresholds_override = NoList
    /\ geotiff = [exists |-> TRUE, west |-> 0, east |-> 2 * Eighth,
                  north |-> 0, south |-> 2 * Eighth, value |-> 20000]
    /\ zoom_levels = <<2>>
    /\ fault.kind = "none"

\* the colour of 20.0 between the breakpoints 12 and 35 of the default ramp
ColorOfTwenty ==
    [ch \in 1..4 |->
       ExactChannel(StyleColors("pm25")[2][ch], StyleColors("pm25")[3][ch],
                    20000, StyleBreaks("pm25")[2], StyleBreaks("pm25")[3])]

\* C7 (as claimed): the end-to-end run produces exactly one PNG, every pixel
\* of which is the colour interpolated for 20 between the breakpoints 12 and
\* 35 with alpha 200, and a metadata.json with data_min = data_max = 20.0.
C7_EndToEnd ==
    (pc = "done" /\ EndToEndScenario) =>
      /\ DOMAIN files = {<<2, 0, 0>>}
      /\ \A rc \in Cells(files[<<2, 0, 0>>]) :
            /\ files[<<2, 0, 0>>][rc[1]][rc[2]] = ColorOfTwenty
            /\ files[<<2, 0, 0>>][rc[1]][rc[2]][4] = DEFAULT_TILE_ALPHA
      /\ metadata # NoList
      /\ metadata.data_min = 20000
      /\ metadata.data_max = 20000

\* C8 (as claimed): for a raster entirely outside Queensland's bounding box
\* the run returns 0, raises nothing and writes no file at all.
C8_OutsideQueenslandWritesNothing ==
    (OutsideQueensland(geotiff) /\ geotiff.exists
     /\ \A k \in DOMAIN zoom_levels : zoom_levels[k] >= 0) =>
       /\ pc # "raised"
       /\ pc = "done" => (result = 0 /\ files = <<>> /\ metadata = NoList)

\* C8 (amended): for a raster from which no tile can be rendered at any zoom
\* level (all its samples are NaN) the run returns 0, raises nothing and
\* writes no PNG, but it does write metadata.json.
C8_ZeroTileRun ==
    (IsNaN(geotiff.value) /\ geotiff.exists
     /\ \A k \in DOMAIN zoom_levels : zoom_levels[k] >= 0) =>
       /\ pc # "raised"
       /\ files = <<>>
       /\ pc = "done" => (result = 0 /\ metadata # NoList)

\* C8 witness: a run over an all-NaN raster dispatched tile tasks and ended
C8_Witness ==
    /\ pc = "done"
    /\ IsNaN(geotiff.value)
    /\ dispatched > 0
    /\ result = 0
    /\ metadata # NoList

\* C9: a tile task that fails yields None, every task of the batch still
\* runs to completion, and the run never raises because of it.
C9_FailureIsolation ==
    /\ exc # "TaskError"
    /\ pc = "raised" => (~geotiff.exists \/ CurrentZoom < 0)
    /\ \A i \in DOMAIN tasks :
          <<CurrentZoom, submitted[i][1], submitted[i][2]>> \in caught =>
             tasks[i] \in {"queued", "running", "none"}
    /\ pc \in {"zoom_loop", "done"} => finished = dispatched
    /\ pc = "done" => result <= dispatched - Cardinality(caught)

\* C9 witness: a run ended normally in which a task failed and another tile
\* of the same batch was written
C9_Witness ==
    /\ pc = "done"
    /\ caught # {}
    /\ finished = dispatched
    /\ result > 0
    /\ \E p \in caught : \E q \in DOMAIN files : p[1] = q[1]

\* C10 (as claimed): when the source file is missing or the zoom list holds
\* an invalid zoom level, the run raises before any tile task has been
\* dispatched and before any file has been written.
C10_ConfigErrorsFailFast ==
    pc = "raised" => (dispatched = 0 /\ files = <<>> /\ metadata = NoList)


\* C11: metadata.json is written only after every tile task of every
\* configured zoom level has completed, and a run that aborts with an
\* exception writes no metadata.json (the file is left as it was).
C11_MetadataOnlyAtTheEnd ==
    /\ [](pc = "raised" => metadata = NoList)
    /\ [][metadata' # metadata =>
            /\ pc = "zoom_loop"
            /\ zi > Len(zoom_levels)
            /\ tasks = <<>>
            /\ finished = dispatched
            /\ exc = "none"
            /\ pc' = "done"]_vars

\* C11 witness: a run over two zoom levels ended and wrote metadata.json
\* after all the tasks it had dispatched
C11_Witness ==
    /\ pc = "done"
    /\ Len(zoom_levels) = 2
    /\ metadata # NoList
    /\ dispatched > 0
    /\ finished = dispatched


\* C12 (as claimed): for every completed run the thresholds recorded in
\* metadata.json are the breakpoints that coloured the tiles, and
\* use_legacy_thresholds in the file is the flag of the run.
C12_MetadataRecordsUsedThresholds ==
    pc = "done" =>
      /\ metadata.thresholds = color_breaks
      /\ metadata.use_legacy_thresholds = use_legacy_thresholds

\* C12 (amended): for every completed run the thresholds recorded in
\* metadata.json are the breakpoints that coloured the tiles, each rounded
\* to two decimals (so identical when no breakpoint has more than two
\* decimals), and use_legacy_thresholds in the file is the flag of the run.
C12_MetadataRecordsRoundedThresholds ==
    pc = "done" =>
      /\ Len(metadata.thresholds) = Len(color_breaks)
      /\ \A i \in 1..Len(color_breaks) :
            /\ metadata.thresholds[i] % Cent = 0
            /\ 2 * (metadata.thresholds[i] - color_breaks[i]) <= Cent
            /\ 2 * (color_breaks[i] - metadata.thresholds[i]) <= Cent
      /\ (\A i \in 1..Len(color_breaks) : color_breaks[i] % Cent = 0) =>
            metadata.thresholds = color_breaks
      /\ metadata.use_legacy_thresholds = use_legacy_thresholds

\* C12 witness: a run that coloured a tile with breakpoints of three
\* decimals ended, and metadata.json records them rounded
C12_Witness ==
    /\ pc = "done"
    /\ files # <<>>
    /\ \E i \in 1..Len(color_breaks) : color_breaks[i] % Cent # 0
    /\ metadata.thresholds # color_breaks
    /\ Len(metadata.thresholds) = Len(color_breaks)


\* a tile whose file holds an image
IsImage(tile) == tile.file \in {"pil", "foreign"}

\* C13: after upsample_layer has returned, for every zoom z in
\* [min_zoom, max_zoom - 1] and every tile image present at z, all four
\* children exist at z + 1 and each holds the same image as the parent.
C13_ChildrenReplicateParent ==
    pc = "up_returned" =>
      \A p \in DOMAIN layer_dir.tiles :
         (/\ min_zoom <= p[1] /\ p[1] <= max_zoom - 1
          /\ IsImage(layer_dir.tiles[p])) =>
            /\ Cardinality(Children(p)) = 4
            /\ \A q \in { <<p[1] + 1, 2 * p[2], 2 * p[3]>>,
                          <<p[1] + 1, 2 * p[2] + 1, 2 * p[3]>>,
                          <<p[1] + 1, 2 * p[2], 2 * p[3] + 1>>,
                          <<p[1] + 1, 2 * p[2] + 1, 2 * p[3] + 1>> } :
                  /\ q \in DOMAIN layer_dir.tiles
                  /\ IsImage(layer_dir.tiles[q])
                  /\ layer_dir.tiles[q].pixels = layer_dir.tiles[p].pixels

\* C13 witness: a call over two zoom steps returned, having replicated a
\* tile of min_zoom down to its grandchildren
C13_Witness ==
    /\ pc = "up_returned"
    /\ calls = 1
    /\ min_zoom = 0
    /\ max_zoom = 2
    /\ <<0, 0, 0>> \in DOMAIN layer_dir.tiles
    /\ layer_dir.tiles[<<0, 0, 0>>] = ImageB
    /\ <<2, 3, 3>> \in DOMAIN layer_dir.tiles
    /\ layer_dir.tiles[<<2, 3, 3>>] = Saved(ImageB)
    /\ up_total = 20

\* C14: running upsample_layer twice with the same arguments leaves the
\* same tiles with the same contents as running it once, and the second run
\* returns the same count as the first.
C14_UpsampleIdempotent ==
    (pc = "up_returned" /\ calls >= 2) =>
       /\ layer_dir = first_call.layer_dir
       /\ up_total = first_call.total

\* C14 witness: a second call returned on a tree that held, before the
\* first call, a tile above min_zoom, and both calls created tiles
C14_Witness ==
    /\ pc = "up_returned"
    /\ calls = 2
    /\ up_total > 4
    /\ up_total = first_call.total
    /\ \E p \in DOMAIN layer_dir.tiles :
          /\ p[1] > min_zoom
          /\ layer_dir.tiles[p].file = "foreign"


\* the layers without dynamic calibration
FixedLayers == LayerNames \ {"pm25", "precipitation"}

\* C15 (as claimed): for uv, humidity and temperature the breakpoints that
\* colour the tiles are the layer's fixed defaults, for every data range and
\* whether or not a thresholds override is passed.
C15_FixedLayersAlwaysUseDefaults ==
    (pc = "zoom_loop" /\ layer_name \in FixedLayers) =>
       color_breaks = LayerBreaks(layer_name)

\* C15 (amended): for uv, humidity and temperature the breakpoints that
\* colour the tiles are never calibrated from the data: for every data
\* range they are the layer's fixed defaults when no override is passed or
\* the legacy flag is set, and the override, verbatim, when one is passed
\* without the legacy flag.
C15_FixedLayersNeverCalibrate ==
    (pc = "zoom_loop" /\ layer_name \in FixedLayers) =>
       /\ dynamic_thresholds = NoList
       /\ color_breaks = IF thresholds_override # NoList
                            /\ ~use_legacy_thresholds
                         THEN thresholds_override
                         ELSE LayerBreaks(layer_name)

\* C15 witness: temperature, no override, a raster whose maximum (42.3)
\* would calibrate to other breakpoints, read and left uncalibrated
C15_Witness ==
    /\ pc = "zoom_loop"
    /\ layer_name = "temperature"
    /\ thresholds_override = NoList
    /\ ~use_legacy_thresholds
    /\ data_max = 42300
    /\ Len(colors) = 3
    /\ color_breaks = LayerBreaks("temperature")
    /\ DynamicBreaks(data_max, Len(colors)) # color_breaks


\* C16: for each of the five layers, with no override, the ramp that colours
\* the tiles has the thresholds of the layer's table row (pm25: 0, 12, 35,
\* 55, 150) and a value at the i-th threshold is coloured with the i-th
\* colour of the row at alpha 200 (pm25: #00ff00, #ffff00, #ff6600,
\* #ff0000, #800080); and the colours an info endpoint reports for the
\* layer are the colours of the row.
C16_DefaultRampsMatchTable ==
    LET thresholds(layer) ==
              CASE layer = "pm25" -> <<0, 12000, 35000, 55000, 150000>>
                   [] layer = "precipitation" -> <<0, 500, 2000, 10000, 50000>>
                   [] layer = "uv" -> <<0, 3000, 6000, 8000, 11000>>
                   [] layer = "humidity" -> <<0, 30000, 50000, 70000, 90000>>
                   [] layer = "temperature" -> <<0, 10000, 20000, 30000, 40000>>
        hexes(layer) ==
              CASE layer = "pm25" ->
                        << <<0, 0, 15, 15, 0, 0>>,
                           <<15, 15, 15, 15, 0, 0>>,
                           <<15, 15, 6, 6, 0, 0>>,
                           <<15, 15, 0, 0, 0, 0>>,
                           <<8, 0, 0, 0, 8, 0>> >>
                   [] layer = "precipitation" ->
                        << <<15, 15, 15, 15, 15, 15>>,
                           <<8, 7, 12, 14, 14, 11>>,
                           <<4, 1, 6, 9, 14, 1>>,
                           <<0, 0, 0, 0, 15, 15>>,
                           <<0, 0, 0, 0, 8, 11>> >>
                   [] layer = "uv" ->
                        << <<2, 8, 9, 5, 0, 0>>,
                           <<15, 7, 14, 4, 0, 0>>,
                           <<15, 8, 5, 9, 0, 0>>,
                           <<13, 8, 0, 0, 1, 13>>,
                           <<6, 11, 4, 9, 12, 8>> >>
                   [] layer = "humidity" ->
                        << <<8, 11, 4, 5, 1, 3>>,
                           <<13, 10, 10, 5, 2, 0>>,
                           <<15, 15, 13, 7, 0, 0>>,
                           <<8, 7, 12, 14, 14, 11>>,
                           <<4, 1, 6, 9, 14, 1>> >>
                   [] layer = "temperature" ->
                        << <<0, 0, 0, 0, 15, 15>>,
                           <<8, 7, 12, 14, 14, 11>>,
                           <<15, 15, 15, 15, 0, 0>>,
                           <<15, 15, 6, 6, 0, 0>>,
                           <<15, 15, 0, 0, 0, 0>> >>
    IN  (/\ pc = "coloured"
         /\ layer_name \in LayerNames
         /\ thresholds_override = NoList) =>
           /\ color_breaks = thresholds(layer_name)
           /\ \A i \in 1..5 :
                 arg = thresholds(layer_name)[i] =>
                    out = HexColor(hexes(layer_name)[i])
           /\ layer_name \in InfoLayers =>
                 InfoColors(layer_name) = hexes(layer_name)


\* distance of a channel value from a target
Distance(a, b) == IF a >= b THEN a - b ELSE b - a

\* C17: for a well-formed ramp and a value v1 = arg in segment
\* [breakpoint[i], breakpoint[i+1]), every output channel lies between the
\* channels of the lower and of the upper breakpoint's colour, and for every
\* larger value v2 of the same segment each output channel is at least as
\* close to the upper breakpoint's channel as the one for v1.
C17_InterpolationMonotone ==
    (/\ pc = "coloured" /\ WellFormedRamp /\ IsFinite(arg)
     /\ arg >= color_breaks[1]
     /\ arg < color_breaks[Len(color_breaks)]) =>
       LET i == SegmentOf(arg, color_breaks)
           lower == colors[i]
           upper == colors[i + 1]
       IN  /\ \A ch \in 1..4 :
                /\ Min2(lower[ch], upper[ch]) <= out[ch]
                /\ out[ch] <= Max2(lower[ch], upper[ch])
           /\ \A v2 \in ProbeValues(color_breaks) :
                (arg < v2 /\ v2 < color_breaks[i + 1]) =>
                   \A ch \in 1..4 :
                      Distance(ColorAt(v2, color_breaks, colors)[ch],
                               upper[ch])
                        <= Distance(out[ch], upper[ch])


\* the point of arg lies strictly inside the box spanned by
\* num2deg(x, y, zoom) and num2deg(x + 1, y + 1, zoom)
StrictlyInside ==
    /\ LonLess(LonOfXTile(arg.x, arg.zoom), arg.lon)
    /\ LonLess(arg.lon, LonOfXTile(arg.x + 1, arg.zoom))
    /\ num2deg(arg.x, arg.y, arg.zoom)[1] < arg.lat
    /\ arg.lat < num2deg(arg.x + 1, arg.y + 1, arg.zoom)[1]

AwayFromEdges ==
    /\ ~LonLess(arg.lon, Nudge(LonOfXTile(arg.x, arg.zoom), MarginExp, 1))
    /\ ~LonLess(Nudge(LonOfXTile(arg.x + 1, arg.zoom), MarginExp, -1),
                arg.lon)

ServiceAlive(table) == { p \in Pids : table[p] \in {"uvicorn", "dummy"} }

C21_AllLayersAttempted ==
    pc \in {"pipeline", "pipeline_exit"} =>
        /\ Len(results) <= Len(LAYERS)
        /\ \A i \in 1..Len(results) :
              /\ results[i].key = LAYERS[i]
              /\ results[i].ran <=>
                     validate_prerequisites(LAYERS[i], pipe_env) = 0
        /\ pc = "pipeline_exit" =>
              /\ Len(results) = Len(LAYERS)
              /\ pipeline_rc # 0 <=>
                     \E i \in 1..Len(results) : results[i].exit_code # 0

\* pm25 failed its prerequisite check, the child of precipitation exited
\* with a non-zero code, and temperature was still run and succeeded
C21_Witness ==
    /\ pc = "pipeline_exit"
    /\ ~results[1].ran
    /\ results[2].ran /\ results[2].exit_code # 0
    /\ results[3].ran /\ results[3].exit_code = 0
    /\ pipeline_rc = 1

\* the futures of the current batch that have returned or raised
DoneNow == { i \in DOMAIN tasks : tasks[i] \in {"path", "none", "raised"} }

\* the futures of the current batch that a worker has taken
StartedNow == { i \in DOMAIN tasks : tasks[i] # "queued" }

\* C22: zoom levels are processed one after the other under every
\* interleaving of the worker threads: whenever a tile task of the
\* current zoom level has started, every task submitted for the earlier
\* zoom levels of the list has finished, and between two zoom levels no
\* task is unfinished.
C22_ZoomLevelsSequential ==
    /\ pc = "batch" /\ StartedNow # {} =>
          finished - Cardinality(DoneNow) = dispatched - Len(tasks)
    /\ pc = "zoom_loop" => finished = dispatched

\* a task of the second zoom level runs next to one that has finished,
\* after a first zoom level of several tasks
C22_Witness ==
    /\ pc = "batch"
    /\ zi = 2
    /\ dispatched - Len(tasks) > 1
    /\ Cardinality(Running) > 1
    /\ DoneNow # {}

\* a zoom list without a repeated level
NoRepeats(levels) ==
    \A i, j \in DOMAIN levels : i # j => levels[i] # levels[j]

\* a step in which the future i returns the path of the tile it saved
Saves(i) == tasks[i] = "running" /\ tasks'[i] = "path"

\* the tile the future i of the current batch writes
PathOf(i) == tile_path(CurrentZoom, submitted[i][1], submitted[i][2])

\* C23 as stated: in every run, for every zoom list, a task that saves a
\* tile writes a path that held no file before, so no two tasks of the
\* run write the same path and nothing written earlier is overwritten.
C23_AppendOnly ==
    [][ \A i \in DOMAIN tasks :
           pc = "batch" /\ Saves(i) => PathOf(i) \notin DOMAIN files ]_vars

\* C23: when the zoom list has no repeated level, as every list has that
\* _parse_zoom_arg returns for a command-line token, a task that saves a
\* tile writes a path that held no file before in the run, and the tiles
\* written earlier keep their content.
C23_AppendOnlyWithoutRepeats ==
    /\ [][ \A i \in DOMAIN tasks :
              pc = "batch" /\ Saves(i) /\ NoRepeats(zoom_levels) =>
                  /\ PathOf(i) \notin DOMAIN files
                  /\ \A p \in DOMAIN files : files'[p] = files[p] ]_vars
    /\ [](pc = "constructed" =>
            \A t \in ZoomTokens :
               parse_zoom_arg(t).ok => NoRepeats(parse_zoom_arg(t).value))

\* the run of the command-line list "1-2" has written tiles of both
\* levels
C23_Witness ==
    /\ zoom_levels = parse_zoom_arg(<<"1", "-", "2">>).value
    /\ pc = "batch"
    /\ zi = 2
    /\ \E p \in DOMAIN files : p[1] = 1
    /\ \E p \in DOMAIN files : p[1] = 2

\* C24: at every moment at most four tile tasks are executing, all of
\* them tasks of the zoom level being processed (no task of another
\* level is unfinished); every executing task holds a raster handle it
\* opened itself, different from the handle of every other executing
\* task, and a task that is not executing holds none; and the count a
\* zoom level adds to the total is the number of its tasks that returned
\* a path, whatever the order in which they finished.
C24_BoundedPoolOwnHandles ==
    /\ [](/\ Cardinality(Running) <= MaxWorkers
          /\ pc = "batch" =>
                dispatched - finished = Cardinality(DOMAIN tasks \ DoneNow)
          /\ pc # "batch" => Running = {}
          /\ \A i \in DOMAIN tasks :
                IF i \in Running
                THEN /\ handles[i] # NoHandle
                     /\ handles[i] <= opened
                     /\ \A j \in Running : j # i => handles[j] # handles[i]
                ELSE handles[i] = NoHandle)
    /\ [][ pc = "batch" /\ pc' = "zoom_loop" =>
              total_generated' - total_generated =
                  Cardinality({ i \in DOMAIN tasks : tasks[i] = "path" })
         ]_vars

\* four tasks are executing while others wait and one has returned a path
C24_Witness ==
    /\ pc = "batch"
    /\ Cardinality(Running) = MaxWorkers
    /\ Queued # {}
    /\ \E i \in DOMAIN tasks : tasks[i] = "path"

\* the tiles of the four corners of the raster at a zoom level
CornerTiles(src, zoom) ==
    { deg2num(lat, lon, zoom) :
        lat \in {src.north, src.south}, lon \in {src.west, src.east} }

\* C25: every tile index submitted for a zoom level lies in
\* 0..2^zoom - 1 on both axes, no index is submitted twice, and every
\* tile that is a corner tile of the raster or one of its eight
\* neighbours, and lies in that range, is submitted.
C25_DispatchedRectangle ==
    pc = "submitted" =>
        LET zoom == zoom_levels[1]
            last == Pow2(zoom) - 1
            sent == { out[i] : i \in DOMAIN out }
        IN  /\ \A t \in sent : t[1] \in 0..last /\ t[2] \in 0..last
            /\ Cardinality(sent) = Len(out)
            /\ \A c \in CornerTiles(geotiff, zoom) :
                  \A dx \in {-1, 0, 1}, dy \in {-1, 0, 1} :
                     (c[1] + dx \in 0..last /\ c[2] + dy \in 0..last) =>
                         <<c[1] + dx, c[2] + dy>> \in sent

\* a raster across the western edge of the world whose rectangle is cut
\* at column 0 and keeps the margin on its other sides
C25_Witness ==
    /\ pc = "submitted"
    /\ zoom_levels[1] = FinestZoom
    /\ geotiff.west < 0
    /\ geotiff.east > 0
    /\ geotiff.north > 2 * Eighth
    /\ Len(out) >= 6
    /\ \E i \in DOMAIN out : out[i][1] = 0

\* the pixels above, below, left and right of (r, c), in that order, that
\* lie inside the array
NeighboursInOrder(data, r, c) ==
    SelectSeq(<< <<r - 1, c>>, <<r + 1, c>>, <<r, c - 1>>, <<r, c + 1>> >>,
              LAMBDA rc : rc \in Cells(data))

\* the original value of the first pixel of the sequence that is not
\* missing, 0 when there is none
RECURSIVE FirstValid(_, _)
FirstValid(data, cells) ==
    IF cells = <<>> THEN 0
    ELSE IF ~Missing(data[Head(cells)[1]][Head(cells)[2]])
         THEN data[Head(cells)[1]][Head(cells)[2]]
    ELSE FirstValid(data, Tail(cells))

\* C26: after gap filling, every pixel that was missing in the input (NaN
\* or zero) holds the input's value of the first non-missing pixel among
\* its adjacent pixels above, below, left and right, in that order, and
\* 0 when all of them are missing or outside the array; values the fill
\* wrote into other pixels are never a source.
C26_FillPriority ==
    pc = "filled" =>
        \A rc \in Cells(arg) :
           Missing(arg[rc[1]][rc[2]]) =>
               out[rc[1]][rc[2]] =
                   FirstValid(arg, NeighboursInOrder(arg, rc[1], rc[2]))

\* a missing centre whose pixels above and below are missing took the
\* value of its left neighbour, not of its right one, while the pixel
\* above it took a value from its own neighbour
C26_Witness ==
    /\ pc = "filled"
    /\ Rows(arg) = 3 /\ Cols(arg) = 3
    /\ Missing(arg[2][2]) /\ Missing(arg[1][2]) /\ Missing(arg[3][2])
    /\ ~Missing(arg[2][1]) /\ ~Missing(arg[2][3])
    /\ arg[2][1] # arg[2][3]
    /\ out[2][2] = arg[2][1]

\* dynamic mode: a dynamically calibrated layer, no legacy flag, no
\* override, after the data range was read
DynamicMode ==
    /\ pc = "zoom_loop"
    /\ layer_name \in {"pm25", "precipitation"}
    /\ ~use_legacy_thresholds
    /\ thresholds_override = NoList

\* the ladder 10, 20, ..., 100, 120, 150, 200, 250, 300, 400, ..., 1000
LadderValues ==
    { k * 10 * Scale : k \in 1..10 } \cup { 120 * Scale, 150 * Scale }
      \cup { k * 50 * Scale : k \in 4..6 } \cup { k * 100 * Scale : k \in 3..10 }

\* the powers of ten from 1000 on
PowersOfTen == { 1000 * Scale, 10000 * Scale, 100000 * Scale }

\* the smallest ladder value not below v; above 1000 the smallest multiple
\* of the largest power of ten not above v
NiceCeiling(v) ==
    IF v <= 1000 * Scale
    THEN CHOOSE x \in LadderValues :
            x >= v /\ \A y \in LadderValues : y >= v => x <= y
    ELSE LET p == CHOOSE q \in PowersOfTen : q <= v /\ v < 10 * q
         IN  CeilDiv(v, p) * p

\* the thresholds are n values from 0 to top, each a whole number of
\* hundredths within half a hundredth of its evenly spaced position
\* (counted in hundredths, which keeps the products small)
EvenlySpaced(breaks, n, top) ==
    /\ Len(breaks) = n
    /\ n >= 2
    /\ breaks[1] = 0
    /\ breaks[n] = top
    /\ \A i \in 1..n :
          /\ breaks[i] % Cent = 0
          /\ LET d == (breaks[i] \div Cent) * (n - 1)
                         - (i - 1) * (top \div Cent)
             IN  2 * d <= n - 1 /\ 2 * d >= 0 - (n - 1)

\* C27 as stated: in dynamic mode, for every data_max and every number
\* of colours, the thresholds are num_classes values evenly spaced from 0
\* to the nice ceiling of max(data_max, 1.0), which is not below it.
C27_EvenlySpacedToCeiling ==
    DynamicMode =>
        LET target == IF IsNaN(data_max) THEN Scale
                      ELSE Max2(data_max, Scale)
        IN  /\ color_breaks[Len(color_breaks)] >= target
            /\ EvenlySpaced(color_breaks, Len(colors),
                            NiceCeiling(Min2(target, 1000000 * Scale)))

\* C27: in dynamic mode, for every finite data_max (a data_max that is
\* not finite counts as 1.0) and every number of colours num_classes >= 2
\* whose spacing ceiling / (num_classes - 1) is at least 0.01, the
\* thresholds are num_classes values evenly spaced from 0 to the ceiling,
\* rounded to 2 decimals, where the ceiling is the smallest ladder value
\* (above 1000: multiple of the power of ten) not below max(data_max, 1.0).
C27_EvenlySpacedWhenSpacingAllows ==
    DynamicMode =>
        LET target == IF ~IsFinite(data_max) THEN Scale
                      ELSE Max2(data_max, Scale)
            top == NiceCeiling(target)
            n == Len(colors)
        IN  (n >= 2 /\ top >= (n - 1) * Cent) =>
               /\ top >= target
               /\ EvenlySpaced(color_breaks, n, top)
               /\ dynamic_thresholds = color_breaks

\* data_max = 100.01 with the five colours of the layer: the ceiling is
\* 120 and the thresholds are 0, 30, 60, 90, 120
C27_Witness ==
    /\ DynamicMode
    /\ data_max = 100010
    /\ color_breaks = <<0, 30000, 60000, 90000, 120000>>

\* C28 (as claimed): every generator that can be constructed, for every
\* layer name and with or without a thresholds override, holds as many
\* colours as thresholds, before and after a sample is coloured, and
\* colouring a sample never indexes a colour that does not exist.
C28_RampShape ==
    /\ Len(colors) = Len(color_breaks)
    /\ pc = "coloured" => out # IndexError


\* the process the PID file names is running and fails the ownership
\* check of an invocation in environment `env`: its command line lacks
\* the expected substrings, or cannot be read while meta.pid differs
NotOwned(env) ==
    /\ pid_file # NoPid
    /\ procs[pid_file] # "free"
    /\ IF env.ps_works
       THEN procs[pid_file] # ExpectedCommand(meta_file)
       ELSE meta_file = NoMeta \/ meta_file.pid # pid_file

\* C29: a `down` without FORCE_KILL on a running process that fails the
\* ownership check signals no process, exits 1 and leaves the PID file and
\* the meta file as they were; an `up` that finds such a process exits 1,
\* starts no process and leaves both files as they were.
C29_RefusesForeignProcess ==
    [][/\ (command' = "down" /\ NotOwned(svc_env') /\ ~svc_env'.force_kill) =>
             /\ procs' = procs
             /\ pid_file' = pid_file
             /\ meta_file' = meta_file
             /\ exit_code' = 1
       /\ (command' = "up" /\ NotOwned(svc_env')) =>
             /\ procs' = procs
             /\ pid_file' = pid_file
             /\ meta_file' = meta_file
             /\ exit_code' = 1]_vars

\* C29 witness: a `down` without FORCE_KILL has refused to stop a foreign
\* process that took the pid of a service whose state files remained
C29_Witness ==
    /\ command = "down"
    /\ ~svc_env.force_kill
    /\ NotOwned(svc_env)
    /\ procs[pid_file] = "foreign"
    /\ meta_file # NoMeta
    /\ meta_file.pid = pid_file
    /\ exit_code = 1
    /\ report = "error"


\* both invocations have returned
BothFinished ==
    /\ pc = "race"
    /\ \A i \in Invocations : invocations[i].at = "done"

\* C30: under every interleaving of two `up` invocations, or of an `up`
\* and a `down`, on one state directory, once both have returned at most
\* one process started by the scripts is running, a PID file that exists
\* names a running process and equals meta.pid, and every running process
\* the scripts started is the one the PID file names.
C30_RacesLeaveOneRecordedService ==
    BothFinished =>
       /\ Cardinality(ServiceAlive(procs)) <= 1
       /\ pid_file # NoPid =>
             /\ is_process_running(pid_file, procs)
             /\ meta_file # NoMeta
             /\ meta_file.pid = pid_file
       /\ ServiceAlive(procs) \subseteq {pid_file}

=============================================================================
